---- MODULE Spec2Model ----
(***************************************************************************)
(* Materialized-view planner of calhacks25: the MV registry, the type-     *)
(* partitioned siblings, the statistics the engine reports, the usability  *)
(* filter, the cost model, MV selection and SQL emission.                  *)
(*                                                                         *)
(* Representation.                                                         *)
(*  - A table name is the sequence of its words, the words being joined by *)
(*    "_" in the program ("mv_day_fast" is <<"mv","day","fast">>).  No     *)
(*    word holds a "_", so the substring "_type_" occurs exactly where an  *)
(*    inner word is "type"; split, contains and last are computed on the   *)
(*    words the way Rust computes them on the characters.                  *)
(*  - Option<T> is a sequence of length 0 (None) or 1 (Some).              *)
(*  - f64 is a tagged value: a reduced fraction, +inf, -inf or NaN, with   *)
(*    the IEEE rules for the special values (rounding is not modelled).    *)
(*  - Emitted SQL is kept as the parts the code joins into the text.       *)
(***************************************************************************)
EXTENDS Integers, Sequences, FiniteSets, TLC

VARIABLES events, hw, useExisting, db, phase, mvs, query, picked, sql, call, ret,
          exec

\* events: the fact table; hw: the detected hardware; useExisting: an existing
\* database file is opened; db: the MV tables of the database; phase: where
\* main() is; mvs: the MV list; query, picked, sql: the query being translated,
\* best_mv and the statement returned; call, ret: the arguments and the result
\* of a function applied on its own; exec: the execution loop of main()
vars == <<events, hw, useExisting, db, phase, mvs, query, picked, sql, call, ret,
          exec>>

(***************************************************************************)
(* Option and small sequence helpers                                       *)
(***************************************************************************)
None == <<>>
Some(x) == <<x>>
IsSome(o) == Len(o) = 1
Get(o) == o[1]

Range(s) == {s[i] : i \in 1..Len(s)}

Contains(s, x) == \E i \in 1..Len(s) : s[i] = x

RECURSIVE Retain(_, _)
\* Vec::retain(|x| x != drop)
Retain(s, drop) ==
    IF s = <<>> THEN <<>>
    ELSE IF Head(s) = drop THEN Retain(Tail(s), drop)
         ELSE <<Head(s)>> \o Retain(Tail(s), drop)

RECURSIVE Join(_)
\* the words of a name joined by "_"
Join(words) ==
    IF words = <<>> THEN ""
    ELSE IF Len(words) = 1 THEN words[1]
         ELSE words[1] \o "_" \o Join(Tail(words))

(***************************************************************************)
(* Letter case of aggregate operators (str::to_uppercase / to_lowercase)   *)
(***************************************************************************)
OpSpellings ==
    {"sum", "Sum", "SUM", "count", "Count", "COUNT", "avg", "Avg", "AVG",
     "min", "MIN", "max", "MAX", "median", "MEDIAN"}

ToUppercase(op) ==
    CASE op \in {"sum", "Sum", "SUM"} -> "SUM"
      [] op \in {"count", "Count", "COUNT"} -> "COUNT"
      [] op \in {"avg", "Avg", "AVG"} -> "AVG"
      [] op \in {"min", "MIN"} -> "MIN"
      [] op \in {"max", "MAX"} -> "MAX"
      [] op \in {"median", "MEDIAN"} -> "MEDIAN"

ToLowercase(op) ==
    CASE op \in {"sum", "Sum", "SUM"} -> "sum"
      [] op \in {"count", "Count", "COUNT"} -> "count"
      [] op \in {"avg", "Avg", "AVG"} -> "avg"
      [] op \in {"min", "MIN"} -> "min"
      [] op \in {"max", "MAX"} -> "max"
      [] op \in {"median", "MEDIAN"} -> "median"

(***************************************************************************)
(* mv.rs: Agg, MaterializedView, metric_col_name, the registry             *)
(***************************************************************************)
\* Agg::new(op, column): the op is stored in upper case
AggNew(op, column) == [op |-> ToUppercase(op), column |-> column]

\* MaterializedView::new: no stats yet
MaterializedViewNew(name, group_by, aggs) ==
    [name |-> name, group_by |-> group_by, aggs |-> aggs,
     num_rows |-> None, num_distinct |-> <<>>, col_to_topk |-> <<>>]

\* MaterializedView::has_stats
HasStats(mv) ==
    /\ DOMAIN mv.num_distinct # {}
    /\ DOMAIN mv.col_to_topk # {}
    /\ IsSome(mv.num_rows)

\* metric_col_name(op, col); no column of the model holds a "."
MetricColName(op, col) ==
    IF ToLowercase(op) = "count" /\ (col = None \/ col = Some("*"))
    THEN "count_rows"
    ELSE ToLowercase(op) \o "_" \o (IF IsSome(col) THEN Get(col) ELSE "rows")

CommonAggs ==
    {AggNew("SUM", Some("bid_price")), AggNew("SUM", Some("total_price")),
     AggNew("COUNT", None), AggNew("COUNT", Some("bid_price")),
     AggNew("COUNT", Some("total_price"))}

\* create_mv_registry, in the order of its pushes
CreateMvRegistry ==
    << MaterializedViewNew(<<"mv", "advertiser", "id", "full">>,
           <<"type", "day", "country", "advertiser_id">>, CommonAggs),
       MaterializedViewNew(<<"mv", "day", "fast">>,
           <<"type", "day">>, CommonAggs),
       MaterializedViewNew(<<"mv", "time", "fast">>,
           <<"type", "day", "hour", "minute">>, CommonAggs),
       MaterializedViewNew(<<"mv", "advertiser", "id", "fast">>,
           <<"type", "advertiser_id">>, CommonAggs),
       MaterializedViewNew(<<"mv", "type", "country">>,
           <<"type", "country">>, CommonAggs),
       MaterializedViewNew(<<"mv", "type", "week">>,
           <<"type", "week">>, CommonAggs),
       MaterializedViewNew(<<"mv", "type", "day", "country">>,
           <<"type", "day", "country">>, CommonAggs),
       MaterializedViewNew(<<"mv", "type", "only">>,
           <<"type">>, CommonAggs),
       MaterializedViewNew(<<"mv", "type", "day", "publisher", "id">>,
           <<"type", "day", "publisher_id">>, CommonAggs),
       MaterializedViewNew(<<"mv", "type", "day", "minute">>,
           <<"type", "day", "minute">>, CommonAggs),
       MaterializedViewNew(<<"mv", "type", "week", "day">>,
           <<"type", "week", "day">>, CommonAggs),
       MaterializedViewNew(<<"mv", "type", "day", "country", "publisher", "id">>,
           <<"type", "day", "country", "publisher_id">>, CommonAggs) >>

\* the literal list `types` of create_type_partitioned_mvs, in its order
PartitionTypes == <<"impression", "click", "serve", "purchase">>

PartitionThreshold == 100000

\* create_type_partitioned_mvs with the size test `rows <= 100_000`
SiblingsOfAboveThreshold(mv) ==
    IF ~Contains(mv.group_by, "type") THEN <<>>
    ELSE IF IsSome(mv.num_rows) /\ Get(mv.num_rows) <= PartitionThreshold THEN <<>>
    ELSE [i \in 1..Len(PartitionTypes) |->
            MaterializedViewNew(mv.name \o <<"type", PartitionTypes[i]>>,
                                Retain(mv.group_by, "type"), mv.aggs)]

\* the siblings create_type_partitioned_mvs pushes for one base MV
SiblingsOf(mv) ==
    IF ~Contains(mv.group_by, "type") THEN <<>>
    ELSE IF IsSome(mv.num_rows) /\ Get(mv.num_rows) < PartitionThreshold THEN <<>>
    ELSE [i \in 1..Len(PartitionTypes) |->
            MaterializedViewNew(mv.name \o <<"type", PartitionTypes[i]>>,
                                Retain(mv.group_by, "type"), mv.aggs)]

RECURSIVE CreateTypePartitionedMvs(_)
\* create_type_partitioned_mvs(base_mvs)
CreateTypePartitionedMvs(base_mvs) ==
    IF base_mvs = <<>> THEN <<>>
    ELSE SiblingsOf(Head(base_mvs)) \o CreateTypePartitionedMvs(Tail(base_mvs))

(***************************************************************************)
(* f64: reduced fractions and the IEEE special values                      *)
(***************************************************************************)
Abs(n) == IF n < 0 THEN -n ELSE n

RECURSIVE Gcd(_, _)
Gcd(a, b) == IF b = 0 THEN a ELSE Gcd(b, a % b)

NaN == [k |-> "nan", n |-> 0, d |-> 1]
PInf == [k |-> "pinf", n |-> 0, d |-> 1]
NInf == [k |-> "ninf", n |-> 0, d |-> 1]

\* the fraction n/d, d > 0, in lowest terms
Frac(n, d) ==
    LET g == Gcd(Abs(n), d) IN [k |-> "fin", n |-> n \div g, d |-> d \div g]

\* `n as f64`
F(n) == Frac(n, 1)

IsNaN(a) == a.k = "nan"
IsInf(a) == a.k \in {"pinf", "ninf"}
\* -1, 0 or 1
Sign(a) ==
    CASE a.k = "pinf" -> 1
      [] a.k = "ninf" -> -1
      [] a.k = "nan" -> 0
      [] OTHER -> IF a.n > 0 THEN 1 ELSE IF a.n < 0 THEN -1 ELSE 0

FNeg(a) ==
    CASE a.k = "pinf" -> NInf
      [] a.k = "ninf" -> PInf
      [] a.k = "nan" -> NaN
      [] OTHER -> [k |-> "fin", n |-> -a.n, d |-> a.d]

\* a * b; 0 * inf is NaN
FMul(a, b) ==
    IF IsNaN(a) \/ IsNaN(b) THEN NaN
    ELSE IF IsInf(a) \/ IsInf(b)
         THEN (IF Sign(a) * Sign(b) = 0 THEN NaN
               ELSE IF Sign(a) * Sign(b) > 0 THEN PInf ELSE NInf)
    ELSE LET g1 == Gcd(Abs(a.n), b.d)
             g2 == Gcd(Abs(b.n), a.d)
         IN  Frac((a.n \div g1) * (b.n \div g2), (a.d \div g2) * (b.d \div g1))

\* a + b; inf + -inf is NaN
FAdd(a, b) ==
    IF IsNaN(a) \/ IsNaN(b) THEN NaN
    ELSE IF IsInf(a) /\ IsInf(b) THEN (IF a.k = b.k THEN a ELSE NaN)
    ELSE IF IsInf(a) THEN a
    ELSE IF IsInf(b) THEN b
    ELSE LET g == Gcd(a.d, b.d)
         IN  Frac(a.n * (b.d \div g) + b.n * (a.d \div g), (a.d \div g) * b.d)

FSub(a, b) == FAdd(a, FNeg(b))

\* a / b with b never a negative zero: x/0 is +-inf, 0/0 is NaN
FDiv(a, b) ==
    IF IsNaN(a) \/ IsNaN(b) THEN NaN
    ELSE IF IsInf(a) THEN (IF IsInf(b) THEN NaN
                           ELSE IF Sign(a) * (IF Sign(b) < 0 THEN -1 ELSE 1) > 0
                                THEN PInf ELSE NInf)
    ELSE IF IsInf(b) THEN F(0)
    ELSE IF b.n = 0 THEN (IF a.n = 0 THEN NaN ELSE IF a.n > 0 THEN PInf ELSE NInf)
    ELSE IF b.n > 0 THEN FMul(a, [k |-> "fin", n |-> b.d, d |-> b.n])
    ELSE FMul(a, [k |-> "fin", n |-> -b.d, d |-> -b.n])

\* a < b; every comparison with NaN is false
FLt(a, b) ==
    IF IsNaN(a) \/ IsNaN(b) THEN FALSE
    ELSE IF a.k = "pinf" \/ b.k = "ninf" THEN FALSE
    ELSE IF a.k = "ninf" \/ b.k = "pinf" THEN TRUE
    ELSE LET qa == a.n \div a.d
             qb == b.n \div b.d
         IN  IF qa # qb THEN qa < qb
             ELSE (a.n % a.d) * b.d < (b.n % b.d) * a.d

FLe(a, b) == ~IsNaN(a) /\ ~IsNaN(b) /\ ~FLt(b, a)

\* f64::min and f64::max: a NaN operand is ignored
FMin(a, b) == IF IsNaN(a) THEN b ELSE IF IsNaN(b) THEN a ELSE IF FLt(b, a) THEN b ELSE a
FMax(a, b) == IF IsNaN(a) THEN b ELSE IF IsNaN(b) THEN a ELSE IF FLt(a, b) THEN b ELSE a

(***************************************************************************)
(* The engine: what DuckDB holds and what it answers.                      *)
(*                                                                         *)
(* `events` is the fact table, in one of two forms.                        *)
(*  - "profile": a full cross product, one row for every combination of    *)
(*    the event types present and dc[c] values "1", "2", ... of every      *)
(*    other key column c; large tables without their rows.                 *)
(*  - "rows": the rows themselves, for small tables.                       *)
(* A table of `db` is a grouped aggregate of events: its name, its key     *)
(* columns, the `WHERE type = ..` of its CREATE statement if any, and its  *)
(* metric columns.                                                         *)
(***************************************************************************)
KeyCols ==
    {"type", "day", "week", "hour", "minute", "country", "advertiser_id",
     "publisher_id"}

EventTypes == {"impression", "click", "serve", "purchase"}

\* LIMIT 10 of the top-k statement
TopK == 10

Min2(a, b) == IF a < b THEN a ELSE b
Max2(a, b) == IF a > b THEN a ELSE b

Table(name, group_by, type_filter, metrics) ==
    [name |-> name, group_by |-> group_by, type_filter |-> type_filter,
     metrics |-> metrics]

\* the event rows a table aggregates
SourceRows(w, t) ==
    {i \in 1..Len(w.rows) :
        t.type_filter = None \/ w.rows[i].type = Get(t.type_filter)}

\* the key tuples of a table over a "rows" fact table
GroupsOf(w, t) ==
    {[c \in Range(t.group_by) |-> w.rows[i][c]] : i \in SourceRows(w, t)}

RECURSIVE ProfileProduct(_, _)
\* number of combinations of the values of the columns `cols`
ProfileProduct(w, cols) ==
    IF cols = <<>> THEN 1
    ELSE (IF Head(cols) = "type" THEN Cardinality(w.types) ELSE w.dc[Head(cols)])
         * ProfileProduct(w, Tail(cols))

\* SELECT COUNT(*) FROM t
EngineNumRows(w, t) ==
    IF w.kind = "rows"
    THEN (IF t.group_by = <<>> THEN 1 ELSE Cardinality(GroupsOf(w, t)))
    ELSE IF w.types = {} THEN (IF t.group_by = <<>> THEN 1 ELSE 0)
    ELSE IF IsSome(t.type_filter) /\ Get(t.type_filter) \notin w.types
         THEN (IF t.group_by = <<>> THEN 1 ELSE 0)
    ELSE ProfileProduct(w, t.group_by)

\* SELECT COUNT(DISTINCT col) FROM t, col a key of t
EngineNumDistinct(w, t, col) ==
    IF w.kind = "rows" THEN Cardinality({g[col] : g \in GroupsOf(w, t)})
    ELSE IF EngineNumRows(w, t) = 0 THEN 0
    ELSE IF col = "type" THEN Cardinality(w.types)
    ELSE w.dc[col]

\* the top-k statement without its LIMIT
EngineTopKUnlimited(w, t, col) ==
    IF w.kind = "rows"
    THEN [v \in {g[col] : g \in GroupsOf(w, t)} |->
             Cardinality({g \in GroupsOf(w, t) : g[col] = v})]
    ELSE IF EngineNumRows(w, t) = 0 THEN <<>>
    ELSE IF col = "type"
         THEN [v \in w.types |-> EngineNumRows(w, t) \div Cardinality(w.types)]
    ELSE [v \in {ToString(i) : i \in 1..w.dc[col]} |->
             EngineNumRows(w, t) \div w.dc[col]]

\* SELECT CAST(col AS VARCHAR), COUNT(*) FROM t GROUP BY col
\*   ORDER BY cnt DESC LIMIT 10, as the map the loop collects
EngineTopK(w, t, col) ==
    IF w.kind = "rows"
    THEN [v \in {g[col] : g \in GroupsOf(w, t)} |->
             Cardinality({g \in GroupsOf(w, t) : g[col] = v})]
    ELSE IF EngineNumRows(w, t) = 0 THEN <<>>
    ELSE IF col = "type"
         THEN [v \in w.types |-> EngineNumRows(w, t) \div Cardinality(w.types)]
    ELSE [v \in {ToString(i) : i \in 1..Min2(TopK, w.dc[col])} |->
             EngineNumRows(w, t) \div w.dc[col]]

\* the table of db with this name
TableNamed(tables, name) == CHOOSE t \in tables : t.name = name

(***************************************************************************)
(* Names: the "_type_" tests of planner.rs and preprocessor.rs             *)
(***************************************************************************)
\* name.contains("_type_"): an inner word is "type"
NameContainsType(name) == \E i \in 2..(Len(name) - 1) : name[i] = "type"

RECURSIVE SplitType(_)
\* name.split("_type_"): leftmost matches, not overlapping
SplitType(name) ==
    IF ~NameContainsType(name) THEN <<name>>
    ELSE LET i == CHOOSE j \in 2..(Len(name) - 1) :
                     /\ name[j] = "type"
                     /\ \A k \in 2..(j - 1) : name[k] # "type"
         IN  <<SubSeq(name, 1, i - 1)>> \o SplitType(SubSeq(name, i + 1, Len(name)))

\* name.split("_type_").last()
LastTypePart(name) == Join(SplitType(name)[Len(SplitType(name))])

\* the block `name.contains("_type_") && { parts.len() == 2 && matches!(..) }`
IsTypePartitionedName(name) ==
    /\ NameContainsType(name)
    /\ Len(SplitType(name)) = 2
    /\ Join(SplitType(name)[2]) \in {"click", "impression", "purchase", "serve"}

\* name.contains(&format!("_type_{}", qtype)), qtype a whole word or empty
NameContainsTypeValue(name, qtype) ==
    \E i \in 2..(Len(name) - 1) :
        /\ name[i] = "type"
        /\ (qtype = "" \/ name[i + 1] = qtype)

(***************************************************************************)
(* Query IR.  A query is a record                                          *)
(*   select   : sequence of items, a bare column [kind |-> "col", ..] or   *)
(*              an aggregate object {op: col} [kind |-> "agg", ..]         *)
(*   from     : Option of a table name                                     *)
(*   where    : sequence of [col, op, val]; val is a string                *)
(*              [kind |-> "str"], a number [kind |-> "num"] (s its JSON    *)
(*              text) or an array of strings [kind |-> "arr"]              *)
(*   group_by : sequence of columns                                        *)
(*   order_by : sequence of [fn, col, dir]: the text fn(col) if fn is      *)
(*              Some, else the bare col                                    *)
(*   limit    : Option of a number                                         *)
(* An absent select, where, group_by or order_by reads as the empty list   *)
(* in every function below, as in the code.                                *)
(***************************************************************************)
ColItem(c) == [kind |-> "col", op |-> "", col |-> c]
AggItem(op, c) == [kind |-> "agg", op |-> op, col |-> c]
StrVal(s) == [kind |-> "str", s |-> s, arr |-> <<>>]
NumVal(s) == [kind |-> "num", s |-> s, arr |-> <<>>]
ArrVal(a) == [kind |-> "arr", s |-> "", arr |-> a]
Pred(col, op, val) == [col |-> col, op |-> op, val |-> val]

\* the Agg built from a select object: "*" is no column
ItemAgg(item) ==
    AggNew(item.op, IF item.col = "*" THEN None ELSE Some(item.col))

(***************************************************************************)
(* planner.rs: usability                                                   *)
(***************************************************************************)
\* agg_derivable accepting AVG on the stored SUM alone
AggDerivableSumOnly(agg, mv) ==
    IF agg.op = "AVG" THEN AggNew("SUM", agg.column) \in mv.aggs
    ELSE IF agg.op \in {"MIN", "MAX", "SUM", "COUNT"} THEN agg \in mv.aggs
    ELSE FALSE

\* Planner::agg_derivable
AggDerivable(agg, mv) ==
    IF agg.op = "AVG"
    THEN /\ AggNew("SUM", agg.column) \in mv.aggs
         /\ AggNew("COUNT", agg.column) \in mv.aggs
    ELSE IF agg.op \in {"MIN", "MAX", "SUM", "COUNT"} THEN agg \in mv.aggs
    ELSE FALSE

\* Planner::extract_type_filter: the first `type eq` predicate decides
ExtractTypeFilter(q) ==
    LET hits == {i \in 1..Len(q.where) :
                    q.where[i].col = "type" /\ q.where[i].op = "eq"}
    IN  IF hits = {} THEN None
        ELSE LET i == CHOOSE j \in hits : \A k \in hits : j <= k
             IN  IF q.where[i].val.kind = "str" THEN Some(q.where[i].val.s)
                 ELSE None

\* the key set is_mv_usable tests against
UsableKeys(mv) ==
    Range(mv.group_by)
        \cup (IF IsTypePartitionedName(mv.name) THEN {"type"} ELSE {})

\* is_mv_usable without the loop over the where columns
IsMvUsableNoWhere(q, mv) ==
    /\ IsTypePartitionedName(mv.name) =>
           /\ IsSome(ExtractTypeFilter(q))
           /\ LastTypePart(mv.name) = Get(ExtractTypeFilter(q))
    /\ Range(q.group_by) \subseteq UsableKeys(mv)
    /\ \A i \in 1..Len(q.select) :
           IF q.select[i].kind = "col" THEN q.select[i].col \in UsableKeys(mv)
           ELSE AggDerivable(ItemAgg(q.select[i]), mv)

\* Planner::is_mv_usable
IsMvUsable(q, mv) ==
    /\ IsTypePartitionedName(mv.name) =>
           /\ IsSome(ExtractTypeFilter(q))
           /\ LastTypePart(mv.name) = Get(ExtractTypeFilter(q))
    /\ Range(q.group_by) \subseteq UsableKeys(mv)
    /\ \A i \in 1..Len(q.where) :
           \/ q.where[i].col = "type" /\ IsTypePartitionedName(mv.name)
           \/ q.where[i].col \in UsableKeys(mv)
    /\ \A i \in 1..Len(q.select) :
           IF q.select[i].kind = "col" THEN q.select[i].col \in UsableKeys(mv)
           ELSE AggDerivable(ItemAgg(q.select[i]), mv)

(***************************************************************************)
(* hardware.rs and planner.rs: the cost model                              *)
(***************************************************************************)
\* HardwareInfo::cost_weights: <<scan_weight, rollup_weight>>
CostWeights(h) ==
    LET memory_factor ==
            FMax(FMin(FDiv(h.available_memory_gb, F(18)), F(2)), Frac(1, 2))
        thread_factor ==
            FMax(FMin(FDiv(F(h.num_threads), F(10)), F(2)), Frac(1, 2))
    IN  <<FDiv(F(1), memory_factor), FDiv(F(32), thread_factor)>>

\* num_rows.unwrap_or(dflt)
NumRowsOr(mv, dflt) == IF IsSome(mv.num_rows) THEN Get(mv.num_rows) ELSE dflt

RECURSIVE InCount(_, _)
\* the loop `cnt += c / cnt += 1` of the "in" branch
InCount(arr, topk) ==
    IF arr = <<>> THEN 0
    ELSE (IF Head(arr) \in DOMAIN topk THEN topk[Head(arr)] ELSE 1)
         + InCount(Tail(arr), topk)

\* the "eq" branch of predicate_selectivity, also the callee of "neq"
EqSelectivity(col, val, mv) ==
    IF val.kind = "str" /\ col \in DOMAIN mv.col_to_topk
                        /\ val.s \in DOMAIN mv.col_to_topk[col]
    THEN FDiv(F(mv.col_to_topk[col][val.s]), F(NumRowsOr(mv, 1)))
    ELSE IF val.kind = "str" /\ col \in DOMAIN mv.num_distinct
    THEN FDiv(F(1), F(mv.num_distinct[col]))
    ELSE Frac(1, 10)

\* the "between" branch of predicate_selectivity
BetweenSelectivity(col, val, mv) ==
    IF val.kind = "arr" /\ Len(val.arr) >= 2 /\ col \in DOMAIN mv.num_distinct
    THEN LET distinct == mv.num_distinct[col]
         IN  IF col = "day"
             THEN (IF distinct > 100 THEN Frac(1, 2) ELSE Frac(1, 5))
             ELSE IF col \in {"hour", "minute"}
             THEN FDiv(FMin(FDiv(F(distinct), F(2)), Frac(1, 2)), F(distinct))
             ELSE FDiv(FMax(FDiv(F(distinct), F(3)), F(1)), F(distinct))
    ELSE Frac(1, 10)

\* Planner::predicate_selectivity
PredicateSelectivity(pred, mv) ==
    CASE pred.op = "eq" -> EqSelectivity(pred.col, pred.val, mv)
      [] pred.op = "in" ->
            IF pred.val.kind = "arr"
            THEN FDiv(F(IF pred.col \in DOMAIN mv.col_to_topk
                        THEN InCount(pred.val.arr, mv.col_to_topk[pred.col])
                        ELSE 0),
                      F(Max2(NumRowsOr(mv, 1), 1)))
            ELSE Frac(1, 10)
      [] pred.op = "neq" -> FSub(F(1), EqSelectivity(pred.col, pred.val, mv))
      [] pred.op = "between" -> BetweenSelectivity(pred.col, pred.val, mv)
      [] OTHER -> Frac(1, 10)

RECURSIVE Selectivity(_, _)
\* the product over the where list, from 1.0
Selectivity(preds, mv) ==
    IF preds = <<>> THEN F(1)
    ELSE FMul(Selectivity(SubSeq(preds, 1, Len(preds) - 1), mv),
              PredicateSelectivity(preds[Len(preds)], mv))

\* has_rollup of mv_cost; the query's group_by is a Vec, its length counts repeats
HasRollup(q, mv) == q.group_by # <<>> /\ Len(q.group_by) < Len(mv.group_by)

RECURSIVE NumGroups(_, _, _)
\* num_groups of mv_cost over the keys `keys` of the MV
NumGroups(q, mv, keys) ==
    IF keys = <<>> THEN F(1)
    ELSE FMul(NumGroups(q, mv, SubSeq(keys, 1, Len(keys) - 1)),
              IF /\ ~Contains(q.group_by, keys[Len(keys)])
                 /\ keys[Len(keys)] \in DOMAIN mv.num_distinct
              THEN F(mv.num_distinct[keys[Len(keys)]])
              ELSE F(1))

\* mv_size_factor of mv_cost
MvSizeFactor(mv) ==
    IF ~IsSome(mv.num_rows) THEN F(1)
    ELSE IF Get(mv.num_rows) < 10000 THEN Frac(9, 10)
    ELSE IF Get(mv.num_rows) < 100000 THEN Frac(19, 20)
    ELSE IF Get(mv.num_rows) < 1000000 THEN F(1)
    ELSE Frac(21, 20)

\* num_groups of mv_cost when base_cost reads it: 1.0 unless has_rollup
ExtraGroups(q, mv) ==
    IF HasRollup(q, mv) THEN NumGroups(q, mv, mv.group_by) ELSE F(1)

\* base_cost of mv_cost
BaseCost(q, mv, h) ==
    FAdd(FMul(CostWeights(h)[1],
              FMul(F(NumRowsOr(mv, 0)), Selectivity(q.where, mv))),
         FMul(CostWeights(h)[2], ExtraGroups(q, mv)))

\* Planner::mv_cost
MvCost(q, mv, h) ==
    IF Range(q.group_by) = Range(mv.group_by) /\ ~HasRollup(q, mv)
    THEN FMul(BaseCost(q, mv, h), Frac(4, 5))
    ELSE FMul(BaseCost(q, mv, h), MvSizeFactor(mv))

\* adjusted_cost of translate_query
AdjustedCost(q, mv, h) ==
    IF IsSome(ExtractTypeFilter(q)) /\ IsTypePartitionedName(mv.name)
    THEN (IF NameContainsTypeValue(mv.name, Get(ExtractTypeFilter(q)))
          THEN FMul(MvCost(q, mv, h), Frac(1, 10))
          ELSE FMul(MvCost(q, mv, h), F(100)))
    ELSE MvCost(q, mv, h)

\* <<i, adjusted_cost>> of the usable MVs whose cost can replace best_cost
\* (+inf at first): the finite costs and -inf, never NaN
Candidates(q, list, h) ==
    {c \in {<<i, AdjustedCost(q, list[i], h)>> :
                i \in {j \in 1..Len(list) : IsMvUsable(q, list[j])}} :
        FLt(c[2], PInf)}

\* the selection loop of translate_query: [idx |-> best_mv, cost |-> best_cost].
\* An MV replaces the best only when its adjusted cost is strictly less, so
\* the loop ends on the first MV, in list order, that no other undercuts.
\* (The candidates are bound once, as the loop computes each cost once.)
BestMv(q, list, h) ==
    LET Last(cands) ==
            {[idx |-> Some(c[1]), cost |-> c[2]] :
                c \in {c \in cands :
                          \A d \in cands :
                              IF d[1] < c[1] THEN FLt(c[2], d[2])
                              ELSE ~FLt(d[2], c[2])}}
    IN  CHOOSE r \in UNION {IF Last(cands) = {} THEN {[idx |-> None, cost |-> PInf]}
                            ELSE Last(cands) :
                                cands \in {Candidates(q, list, h)}} : TRUE

(***************************************************************************)
(* SQL emission.  The emitted statement is the record of its clauses:      *)
(*   select   : the parts joined by ", "; a part is an expression          *)
(*              [fn, args] and an Option alias (`expr AS "alias"`);        *)
(*              fn "" is a bare column, "*" the star,                      *)
(*              "CAST_VARCHAR" is CAST(c AS VARCHAR), "SUM_DIV_SUM" is     *)
(*              SUM(a)::DOUBLE / NULLIF(SUM(b), 0)                         *)
(*   from     : the table name                                             *)
(*   where    : the conditions joined by " AND "; a condition is           *)
(*              [col, rel, args, quoted], the empty string is NoCond       *)
(*   group_by : the columns; order_by : [expr, dir]; limit : Option        *)
(* status is "panic" when the code panics instead of returning.            *)
(***************************************************************************)
Expr(fn, args) == [fn |-> fn, args |-> args]
Part(expr, alias) == [expr |-> expr, alias |-> alias]
Cond(col, rel, args, quoted) ==
    [col |-> col, rel |-> rel, args |-> args, quoted |-> quoted]
NoCond == Cond("", "", <<>>, FALSE)

Panicked ==
    [status |-> "panic", select |-> <<>>, from |-> "", where |-> <<>>,
     group_by |-> <<>>, order_by |-> <<>>, limit |-> None]

\* Planner::compute_agg_alias_expr(op, col): [ok, expr, alias]; ok is FALSE
\* where the code panics
ComputeAggAliasExpr(op, col) ==
    LET op_upper == ToUppercase(op)
        op_lower == ToLowercase(op)
        col_str == IF IsSome(col) THEN Get(col) ELSE "*"
        plain_alias == op_lower \o "(" \o col_str \o ")"
    IN  IF op_upper = "AVG"
        THEN [ok |-> TRUE,
              expr |-> Expr("SUM_DIV_SUM",
                            <<MetricColName("sum", col), MetricColName("count", col)>>),
              alias |-> plain_alias]
        ELSE IF op_upper \in {"SUM", "COUNT"}
        THEN [ok |-> TRUE,
              expr |-> Expr("SUM",
                            <<MetricColName(op_upper,
                                  IF op_upper = "COUNT" /\ col = Some("*")
                                  THEN None ELSE col)>>),
              alias |-> IF op_upper = "COUNT" /\ col = Some("*")
                        THEN "count_star()" ELSE plain_alias]
        ELSE IF op_upper \in {"MIN", "MAX"}
        THEN [ok |-> TRUE,
              expr |-> Expr(op_upper, <<MetricColName(op_upper, col)>>),
              alias |-> plain_alias]
        ELSE [ok |-> FALSE, expr |-> Expr("", <<>>), alias |-> ""]

\* one item of select_over_mv
SelectPartOverMv(item) ==
    IF item.kind = "col"
    THEN (IF item.col = "type"
          THEN Part(Expr("CAST_VARCHAR", <<"type">>), Some("type"))
          ELSE Part(Expr("", <<item.col>>), None))
    ELSE LET r == ComputeAggAliasExpr(item.op,
                      IF item.col = "*" THEN None ELSE Some(item.col))
         IN  Part(r.expr, Some(r.alias))

\* Planner::select_over_mv
SelectOverMv(select) ==
    IF select = <<>> THEN <<Part(Expr("*", <<>>), None)>>
    ELSE [i \in 1..Len(select) |-> SelectPartOverMv(select[i])]

\* select_over_mv panics on an aggregate compute_agg_alias_expr rejects
SelectOverMvPanics(select) ==
    \E i \in 1..Len(select) :
        /\ select[i].kind = "agg"
        /\ ~ComputeAggAliasExpr(select[i].op,
               IF select[i].col = "*" THEN None ELSE Some(select[i].col)).ok

\* the text of a value that is not a JSON string, as `{}` prints it
ValArgs(val) == IF val.kind = "arr" THEN val.arr ELSE <<val.s>>

\* Planner::predicate_to_sql, and the same match inside Planner::where_to_sql
PredicateToSql(cond) ==
    CASE cond.op = "eq" ->
            IF cond.val.kind = "str" THEN Cond(cond.col, "=", <<cond.val.s>>, TRUE)
            ELSE Cond(cond.col, "=", ValArgs(cond.val), FALSE)
      [] cond.op = "neq" ->
            IF cond.val.kind = "str" THEN Cond(cond.col, "!=", <<cond.val.s>>, TRUE)
            ELSE Cond(cond.col, "!=", ValArgs(cond.val), FALSE)
      [] cond.op = "between" ->
            IF cond.val.kind = "arr"
            THEN Cond(cond.col, "BETWEEN", <<cond.val.arr[1], cond.val.arr[2]>>, TRUE)
            ELSE NoCond
      [] cond.op = "in" ->
            IF cond.val.kind = "arr" THEN Cond(cond.col, "IN", cond.val.arr, TRUE)
            ELSE NoCond
      [] OTHER -> NoCond

\* arr[0] or arr[1] out of bounds: the index panics
PredicatePanics(cond) ==
    cond.op = "between" /\ cond.val.kind = "arr" /\ Len(cond.val.arr) < 2

\* Planner::where_to_sql: every predicate gives a part, the empty ones too
WhereToSql(preds) == [i \in 1..Len(preds) |-> PredicateToSql(preds[i])]

\* Planner::where_to_sql_excluding_type
WhereToSqlExcludingType(preds) ==
    LET NotType(p) == p.col # "type"
        NotEmpty(c) == c # NoCond
    IN  SelectSeq([i \in 1..Len(SelectSeq(preds, NotType)) |->
                       PredicateToSql(SelectSeq(preds, NotType)[i])],
                  NotEmpty)

\* Planner::group_by_to_sql and query_handler's group_by_to_sql
GroupByToSql(group_by) == group_by

\* the direction in upper case, "asc" when absent
DirToSql(dir) ==
    IF ~IsSome(dir) THEN "ASC"
    ELSE CASE Get(dir) \in {"asc", "ASC"} -> "ASC"
           [] Get(dir) \in {"desc", "DESC"} -> "DESC"

\* order_by_to_sql that passes every item through as written, as the plain
\* translation does
OrderPartAsWritten(o) ==
    IF IsSome(o.fn)
    THEN [expr |-> Expr(Get(o.fn), <<o.col>>), dir |-> DirToSql(o.dir)]
    ELSE [expr |-> Expr("", <<o.col>>), dir |-> DirToSql(o.dir)]

\* one item of Planner::order_by_to_sql
OrderPartOverMv(o) ==
    IF IsSome(o.fn)
    THEN [expr |-> ComputeAggAliasExpr(Get(o.fn), Some(o.col)).expr,
          dir |-> DirToSql(o.dir)]
    ELSE [expr |-> Expr("", <<o.col>>), dir |-> DirToSql(o.dir)]

\* Planner::order_by_to_sql
OrderByToSql(order_by) ==
    [i \in 1..Len(order_by) |-> OrderPartOverMv(order_by[i])]

OrderByPanics(order_by) ==
    \E i \in 1..Len(order_by) :
        /\ IsSome(order_by[i].fn)
        /\ ~ComputeAggAliasExpr(Get(order_by[i].fn), Some(order_by[i].col)).ok

\* Planner::assemble_sql_for_mv
AssembleSqlForMv(q, mv) ==
    IF \/ SelectOverMvPanics(q.select)
       \/ \E i \in 1..Len(q.where) :
             /\ PredicatePanics(q.where[i])
             /\ ~(NameContainsType(mv.name) /\ q.where[i].col = "type")
       \/ OrderByPanics(q.order_by)
    THEN Panicked
    ELSE [status |-> "ok",
          select |-> SelectOverMv(q.select),
          from |-> Join(mv.name),
          where |-> IF NameContainsType(mv.name)
                    THEN WhereToSqlExcludingType(q.where)
                    ELSE WhereToSql(q.where),
          group_by |-> GroupByToSql(q.group_by),
          order_by |-> OrderByToSql(q.order_by),
          limit |-> q.limit]

(***************************************************************************)
(* query_handler.rs: the plain translation                                 *)
(***************************************************************************)
\* str::parse::<f64>() succeeds on the text
ParsesAsNumber(text) == text \in {ToString(i) : i \in 0..99}

\* format_value_for_sql: <<text, quoted>>
FormatValueForSql(val) ==
    IF val.kind = "num" THEN <<val.s, FALSE>>
    ELSE IF val.kind = "str"
    THEN (IF ParsesAsNumber(val.s) THEN <<val.s, FALSE>> ELSE <<val.s, TRUE>>)
    ELSE <<"", FALSE>>

CompareRel(op) ==
    CASE op = "lt" -> "<" [] op = "lte" -> "<=" [] op = "gt" -> ">" [] op = "gte" -> ">="

\* one predicate of query_handler's where_to_sql
PlainPredicateToSql(cond) ==
    CASE cond.op = "eq" ->
            Cond(cond.col, "=", <<IF cond.val.kind = "str" THEN cond.val.s ELSE "">>, TRUE)
      [] cond.op = "neq" ->
            Cond(cond.col, "!=", <<IF cond.val.kind = "str" THEN cond.val.s ELSE "">>, TRUE)
      [] cond.op \in {"lt", "lte", "gt", "gte"} ->
            IF cond.val.kind = "arr"
            THEN Cond(cond.col, CompareRel(cond.op), cond.val.arr, FALSE)
            ELSE Cond(cond.col, CompareRel(cond.op),
                      <<FormatValueForSql(cond.val)[1]>>, FormatValueForSql(cond.val)[2])
      [] cond.op = "between" ->
            IF cond.val.kind = "arr"
            THEN Cond(cond.col, "BETWEEN", <<cond.val.arr[1], cond.val.arr[2]>>, TRUE)
            ELSE NoCond
      [] cond.op = "in" ->
            IF cond.val.kind = "arr" THEN Cond(cond.col, "IN", cond.val.arr, TRUE)
            ELSE NoCond
      [] OTHER -> NoCond

\* query_handler's where_to_sql
PlainWhereToSql(preds) == [i \in 1..Len(preds) |-> PlainPredicateToSql(preds[i])]

\* query_handler's select_to_sql: FUNC(col) without an alias
PlainSelectToSql(select) ==
    IF select = <<>> THEN <<Part(Expr("*", <<>>), None)>>
    ELSE [i \in 1..Len(select) |->
            IF select[i].kind = "col" THEN Part(Expr("", <<select[i].col>>), None)
            ELSE Part(Expr(ToUppercase(select[i].op), <<select[i].col>>), None)]

\* query_handler's order_by_to_sql: the col text as written
PlainOrderByToSql(order_by) ==
    [i \in 1..Len(order_by) |->
        [expr |-> IF IsSome(order_by[i].fn)
                  THEN Expr(Get(order_by[i].fn), <<order_by[i].col>>)
                  ELSE Expr("", <<order_by[i].col>>),
         dir |-> DirToSql(order_by[i].dir)]]

\* q["from"].as_str().unwrap_or(..)
DefaultFromTable == "events_table"

\* query_handler::assemble_sql, which Planner::assemble_sql_plain calls
AssembleSql(q) ==
    IF \E i \in 1..Len(q.where) : PredicatePanics(q.where[i]) THEN Panicked
    ELSE [status |-> "ok",
          select |-> PlainSelectToSql(q.select),
          from |-> IF IsSome(q.from) THEN Get(q.from) ELSE DefaultFromTable,
          where |-> PlainWhereToSql(q.where),
          group_by |-> GroupByToSql(q.group_by),
          order_by |-> PlainOrderByToSql(q.order_by),
          limit |-> q.limit]

\* Planner::translate_query: the index picked and the statement
TranslateQuery(q, list, h) ==
    CHOOSE r \in {[picked |-> best.idx,
                   sql |-> IF IsSome(best.idx)
                           THEN AssembleSqlForMv(q, list[Get(best.idx)])
                           ELSE AssembleSql(q)] : best \in {BestMv(q, list, h)}} : TRUE

(***************************************************************************)
(* preprocessor.rs: building tables, collecting stats, loading the list    *)
(***************************************************************************)
\* a CREATE statement that names the COUNT(*) column count_star
MetricColumnsCountStar(mv) ==
    {IF agg.column = None THEN "count_star" ELSE MetricColName(agg.op, agg.column) :
        agg \in mv.aggs}

\* the metric columns of the CREATE statement of an MV
MetricColumns(mv) ==
    {IF agg.column = None THEN "count_rows" ELSE MetricColName(agg.op, agg.column) :
        agg \in mv.aggs}

\* CREATE TABLE IF NOT EXISTS: a table of that name is kept as it is
CreateTableIfNotExists(tables, t) ==
    IF \E u \in tables : u.name = t.name THEN tables ELSE tables \cup {t}

RECURSIVE CreateTables(_, _)
\* the CREATE loop over the statements of a list of MVs
CreateTables(tables, stmts) ==
    IF stmts = <<>> THEN tables
    ELSE CreateTables(CreateTableIfNotExists(tables, Head(stmts)), Tail(stmts))

\* MaterializedView::generate_create_sql
BaseTableOf(mv) == Table(mv.name, mv.group_by, None, MetricColumns(mv))

\* the CREATE statement of create_type_partitioned_materialized_views
PartitionedTableOf(mv) ==
    Table(mv.name, mv.group_by, Some(LastTypePart(mv.name)), MetricColumns(mv))

\* one iteration of compute_mv_stats
ComputeStatsOf(w, tables, mv) ==
    LET t == TableNamed(tables, mv.name)
    IN  [mv EXCEPT
           !.num_rows = Some(EngineNumRows(w, t)),
           !.num_distinct =
               [c \in DOMAIN mv.num_distinct \cup Range(mv.group_by) |->
                   IF c \in Range(mv.group_by) THEN EngineNumDistinct(w, t, c)
                   ELSE mv.num_distinct[c]],
           !.col_to_topk =
               [c \in DOMAIN mv.col_to_topk \cup Range(mv.group_by) |->
                   IF c \in Range(mv.group_by) THEN EngineTopK(w, t, c)
                   ELSE mv.col_to_topk[c]]]

\* compute_mv_stats over a list
ComputeMvStats(w, tables, list) ==
    [i \in 1..Len(list) |-> ComputeStatsOf(w, tables, list[i])]

\* what create_type_partitioned_materialized_views returns
PartitionedMvsFor(w, tables, base_mvs) ==
    CreateTypePartitionedMvs(ComputeMvStats(w, tables, base_mvs))

(***************************************************************************)
(* load_all_mvs_from_db                                                    *)
(***************************************************************************)
\* the words of the vocabulary in byte order; "_" sorts before every letter,
\* so names compare word by word
WordOrder ==
    <<"advertiser", "click", "country", "day", "fast", "full", "id",
      "impression", "minute", "mv", "only", "publisher", "purchase", "serve",
      "time", "type", "week">>

WordRank(word) == CHOOSE i \in 1..Len(WordOrder) : WordOrder[i] = word

RECURSIVE NameLess(_, _)
\* a < b as strings
NameLess(a, b) ==
    IF b = <<>> THEN FALSE
    ELSE IF a = <<>> THEN TRUE
    ELSE IF Head(a) = Head(b) THEN NameLess(Tail(a), Tail(b))
    ELSE WordRank(Head(a)) < WordRank(Head(b))

RECURSIVE SortByName(_)
\* ORDER BY table_name
SortByName(tables) ==
    IF tables = {} THEN <<>>
    ELSE LET first == CHOOSE t \in tables :
                          \A u \in tables \ {t} : NameLess(t.name, u.name)
         IN  <<first>> \o SortByName(tables \ {first})

\* facts about the characters of the column names
HasUnderscore(col) == col \in {"advertiser_id", "publisher_id", "bid_price", "total_price"}
ContainsId(col) == col \in {"advertiser_id", "publisher_id", "bid_price"}

\* the column is read as an aggregate: it starts with sum_, count_, min_ or
\* max_; the pair is splitn(2, '_')
MetricParts(col_name) ==
    {pr \in {"sum", "count", "min", "max"}
            \X {"rows", "bid_price", "total_price"} :
        col_name = pr[1] \o "_" \o pr[2]}

\* the Agg pushed for an aggregate column
MetricAgg(col_name) ==
    LET pr == CHOOSE x \in MetricParts(col_name) : TRUE
    IN  AggNew(pr[1], IF pr[2] = "rows" THEN None ELSE Some(pr[2]))

\* the `else if` without its last test, col_name.contains("id")
IsGroupByColumnByListOnly(col_name) ==
    \/ ~HasUnderscore(col_name)
    \/ col_name \in {"type", "day", "country", "week", "hour", "minute"}

\* the `else if` that keeps a column as a group-by column
IsGroupByColumn(col_name) ==
    \/ ~HasUnderscore(col_name)
    \/ col_name \in {"type", "day", "country", "week", "hour", "minute"}
    \/ ContainsId(col_name)

\* the descriptor rebuilt from the columns of one table
LoadMvFromTable(t) ==
    LET IsKey(c) == IsGroupByColumn(c)
        keys == SelectSeq(t.group_by, IsKey)
    IN  MaterializedViewNew(
            t.name,
            IF IsTypePartitionedName(t.name) THEN Retain(keys, "type") ELSE keys,
            {MetricAgg(m) : m \in {x \in t.metrics : MetricParts(x) # {}}})

\* load_all_mvs_from_db; every table of db is an MV table (LIKE 'mv_%')
LoadAllMvsFromDb(tables) ==
    [i \in 1..Len(SortByName(tables)) |-> LoadMvFromTable(SortByName(tables)[i])]

\* the CREATE TABLE statements of create_materialized_views, in loop order
BaseTables == [i \in 1..Len(CreateMvRegistry) |-> BaseTableOf(CreateMvRegistry[i])]

\* create_materialized_views: the tables it creates
CreateMaterializedViewsTables(tables) == CreateTables(tables, BaseTables)

\* the tables a finished build-and-run preprocessing leaves in the database
BuiltTables(w) ==
    LET base == CreateMaterializedViewsTables({})
        partitioned_mvs == PartitionedMvsFor(w, base, CreateMvRegistry)
    IN  CreateTables(base, [i \in 1..Len(partitioned_mvs) |->
                               PartitionedTableOf(partitioned_mvs[i])])

(***************************************************************************)
(* The engine: the rows a statement returns over a "rows" fact table.      *)
(* A value is NULL, a text or an exact rational; a result is the multiset  *)
(* of its rows, as the set of <<row, multiplicity>>, or an error.          *)
(***************************************************************************)
SqlNull == [k |-> "null", s |-> "", n |-> 0, d |-> 1]
SqlStr(s) == [k |-> "str", s |-> s, n |-> 0, d |-> 1]
SqlNum(n, d) == [k |-> "num", s |-> "", n |-> n \div Gcd(Abs(n), d), d |-> d \div Gcd(Abs(n), d)]

SqlError == [ok |-> FALSE, rows |-> {}]
\* the result of the <<group, row>> pairs
SqlRows(pairs) ==
    [ok |-> TRUE,
     rows |-> {<<r, Cardinality({p \in pairs : p[2] = r})>> :
                  r \in {p[2] : p \in pairs}}]

\* the number a key value or a literal reads as
ToNumber(text) == CHOOSE i \in 0..99 : ToString(i) = text

RECURSIVE SumOf(_)
\* the sum of the values of a function
SumOf(f) ==
    IF DOMAIN f = {} THEN 0
    ELSE LET x == CHOOSE y \in DOMAIN f : TRUE
         IN  f[x] + SumOf([y \in DOMAIN f \ {x} |-> f[y]])

\* OP(col) over the event rows `members`; col None is `*`
AggValue(op, col, members, rows) ==
    LET nn == {i \in members : IsSome(col) /\ IsSome(rows[i][Get(col)])}
        V(i) == Get(rows[i][Get(col)])
    IN  CASE op = "COUNT" ->
                SqlNum(IF IsSome(col) THEN Cardinality(nn) ELSE Cardinality(members), 1)
          [] nn = {} -> SqlNull
          [] op = "SUM" -> SqlNum(SumOf([i \in nn |-> V(i)]), 1)
          [] op = "AVG" -> SqlNum(SumOf([i \in nn |-> V(i)]), Cardinality(nn))
          [] op = "MIN" -> SqlNum(V(CHOOSE i \in nn : \A j \in nn : V(i) <= V(j)), 1)
          [] op = "MAX" -> SqlNum(V(CHOOSE i \in nn : \A j \in nn : V(i) >= V(j)), 1)

\* a predicate of the query on one event row
PredHolds(pred, row) ==
    CASE pred.op = "eq" -> row[pred.col] = pred.val.s
      [] pred.op = "neq" -> row[pred.col] # pred.val.s
      [] pred.op = "lt" -> ToNumber(row[pred.col]) < ToNumber(pred.val.s)
      [] pred.op = "lte" -> ToNumber(row[pred.col]) <= ToNumber(pred.val.s)
      [] pred.op = "gt" -> ToNumber(row[pred.col]) > ToNumber(pred.val.s)
      [] pred.op = "gte" -> ToNumber(row[pred.col]) >= ToNumber(pred.val.s)
      [] pred.op = "between" ->
            /\ ToNumber(pred.val.arr[1]) <= ToNumber(row[pred.col])
            /\ ToNumber(row[pred.col]) <= ToNumber(pred.val.arr[2])
      [] pred.op = "in" -> row[pred.col] \in Range(pred.val.arr)

\* the query run on the fact table: filter, group, aggregate
EvalQuery(q, rows) ==
    LET match == {i \in 1..Len(rows) :
                     \A k \in 1..Len(q.where) : PredHolds(q.where[k], rows[i])}
        KeyOf(i) == [k \in 1..Len(q.group_by) |-> rows[i][q.group_by[k]]]
        groups == IF q.group_by = <<>> THEN {<<>>} ELSE {KeyOf(i) : i \in match}
        Members(g) == {i \in match : KeyOf(i) = g}
        KeyAt(g, col) == g[CHOOSE k \in 1..Len(q.group_by) : q.group_by[k] = col]
        Row(g) == [k \in 1..Len(q.select) |->
                     IF q.select[k].kind = "col" THEN SqlStr(KeyAt(g, q.select[k].col))
                     ELSE AggValue(ItemAgg(q.select[k]).op, ItemAgg(q.select[k]).column,
                                   Members(g), rows)]
    IN  SqlRows({<<g, Row(g)>> : g \in groups})

\* the event rows behind one row of an MV table
MvMembers(w, t, g) ==
    {i \in SourceRows(w, t) : \A c \in Range(t.group_by) : w.rows[i][c] = g[c]}

\* a metric column of one row of an MV table
MetricValue(w, t, g, metric) ==
    LET pr == CHOOSE x \in MetricParts(metric) : TRUE
    IN  AggValue(ToUppercase(pr[1]), IF pr[2] = "rows" THEN None ELSE Some(pr[2]),
                 MvMembers(w, t, g), w.rows)

\* a condition of the emitted WHERE clause on one row of an MV table
CondHolds(c, g) ==
    CASE c.rel = "=" -> g[c.col] = c.args[1]
      [] c.rel = "!=" -> g[c.col] # c.args[1]
      [] c.rel = "BETWEEN" ->
            /\ ToNumber(c.args[1]) <= ToNumber(g[c.col])
            /\ ToNumber(g[c.col]) <= ToNumber(c.args[2])
      [] c.rel = "IN" -> g[c.col] \in Range(c.args)

\* SUM, MIN or MAX of a metric column over rows of an MV table
RollUp(fn, w, t, metric, mvrows) ==
    LET nn == {g \in mvrows : MetricValue(w, t, g, metric).k = "num"}
        V(g) == MetricValue(w, t, g, metric).n
    IN  CASE nn = {} -> SqlNull
          [] fn = "SUM" -> SqlNum(SumOf([g \in nn |-> V(g)]), 1)
          [] fn = "MIN" -> SqlNum(V(CHOOSE g \in nn : \A h \in nn : V(g) <= V(h)), 1)
          [] fn = "MAX" -> SqlNum(V(CHOOSE g \in nn : \A h \in nn : V(g) >= V(h)), 1)

\* the statement emitted for an MV, run on the MV's table t: an empty
\* condition, a column the table lacks or a bare column outside GROUP BY is an
\* error of the engine
EvalSql(stmt, t, w) ==
    LET keys == Range(t.group_by)
        bad == \/ \E k \in 1..Len(stmt.where) :
                     stmt.where[k] = NoCond \/ stmt.where[k].col \notin keys
               \/ ~(Range(stmt.group_by) \subseteq keys)
               \/ \E k \in 1..Len(stmt.select) :
                     LET e == stmt.select[k].expr
                     IN  IF e.fn \in {"", "CAST_VARCHAR"}
                         THEN e.args[1] \notin Range(stmt.group_by)
                         ELSE ~(Range(e.args) \subseteq t.metrics)
        match == {g \in GroupsOf(w, t) :
                     \A k \in 1..Len(stmt.where) : CondHolds(stmt.where[k], g)}
        KeyOf(g) == [k \in 1..Len(stmt.group_by) |-> g[stmt.group_by[k]]]
        groups == IF stmt.group_by = <<>> THEN {<<>>} ELSE {KeyOf(g) : g \in match}
        Members(o) == {g \in match : KeyOf(g) = o}
        KeyAt(o, col) == o[CHOOSE k \in 1..Len(stmt.group_by) : stmt.group_by[k] = col]
        Value(e, o) ==
            CASE e.fn \in {"", "CAST_VARCHAR"} -> SqlStr(KeyAt(o, e.args[1]))
              [] e.fn = "SUM_DIV_SUM" ->
                    LET sum == RollUp("SUM", w, t, e.args[1], Members(o))
                        cnt == RollUp("SUM", w, t, e.args[2], Members(o))
                    IN  IF sum.k = "null" \/ cnt.k = "null" \/ cnt.n = 0 THEN SqlNull
                        ELSE SqlNum(sum.n, cnt.n)
              [] OTHER -> RollUp(e.fn, w, t, e.args[1], Members(o))
        Row(o) == [k \in 1..Len(stmt.select) |-> Value(stmt.select[k].expr, o)]
    IN  IF bad THEN SqlError ELSE SqlRows({<<o, Row(o)>> : o \in groups})

(***************************************************************************)
(* Inputs: fact tables, hardware, queries                                  *)
(***************************************************************************)
Profile(types, day, week, hour, minute, country, advertiser_id, publisher_id) ==
    [kind |-> "profile", types |-> types, rows |-> <<>>,
     dc |-> [c \in KeyCols \ {"type"} |->
               CASE c = "day" -> day [] c = "week" -> week [] c = "hour" -> hour
                 [] c = "minute" -> minute [] c = "country" -> country
                 [] c = "advertiser_id" -> advertiser_id
                 [] c = "publisher_id" -> publisher_id]]

\* an empty fact table; a small one where several rollups coincide; a large
\* one; a large one without purchase events
Profiles ==
    {Profile({}, 0, 0, 0, 0, 0, 0, 0),
     Profile(EventTypes, 1, 1, 1, 1, 1, 2, 1),
     Profile(EventTypes, 200, 30, 1, 150, 2, 1500, 50),
     Profile(EventTypes \ {"purchase"}, 250, 30, 1, 150, 2, 1500, 50)}

\* an event of week 1, hour 1 and publisher 1; a price is None for NULL
EventRow(type, day, minute, country, advertiser_id, bid_price, total_price) ==
    [type |-> type, day |-> day, week |-> "1", hour |-> "1", minute |-> minute,
     country |-> country, advertiser_id |-> advertiser_id, publisher_id |-> "1",
     bid_price |-> bid_price, total_price |-> total_price]

EventRowChoices ==
    {EventRow("click", "1", "1", "1", "1", Some(2), None),
     EventRow("click", "2", "3", "1", "2", None, None),
     EventRow("serve", "1", "1", "1", "1", Some(3), None),
     EventRow("purchase", "3", "5", "2", "1", None, Some(5))}

RECURSIVE SetToSeq(_)
SetToSeq(S) ==
    IF S = {} THEN <<>>
    ELSE LET x == CHOOSE y \in S : TRUE IN <<x>> \o SetToSeq(S \ {x})

\* the small fact tables: every choice of the events above
RowWorlds ==
    {[kind |-> "rows", types |-> {}, rows |-> SetToSeq(S),
      dc |-> [c \in KeyCols \ {"type"} |-> 0]] : S \in SUBSET EventRowChoices}

\* HardwareInfo::detect: thread count and available memory in GB
Hardwares ==
    {[num_threads |-> 10, available_memory_gb |-> F(18)],
     [num_threads |-> 32, available_memory_gb |-> F(4)]}

SelectChoices ==
    {<<AggItem("count", "*")>>,
     <<ColItem("country"), AggItem("sum", "total_price")>>,
     <<AggItem("AVG", "bid_price")>>,
     <<ColItem("minute"), AggItem("Count", "*")>>,
     <<ColItem("type"), AggItem("SUM", "bid_price")>>,
     <<ColItem("day"), AggItem("count", "bid_price")>>,
     <<AggItem("max", "bid_price")>>,
     <<AggItem("median", "bid_price")>>}

WhereChoices ==
    {<<>>,
     <<Pred("type", "eq", StrVal("click"))>>,
     <<Pred("type", "eq", StrVal("purchase"))>>,
     <<Pred("type", "eq", StrVal("purchase")), Pred("day", "eq", StrVal("1"))>>,
     <<Pred("type", "eq", StrVal("click")), Pred("day", "lt", StrVal("5"))>>,
     <<Pred("day", "between", ArrVal(<<"1", "3">>))>>,
     <<Pred("country", "in", ArrVal(<<"1", "11", "0">>))>>,
     <<Pred("type", "neq", StrVal("serve"))>>,
     <<Pred("type", "eq", StrVal("serve")), Pred("type", "eq", StrVal("click"))>>,
     <<Pred("type", "eq", StrVal("other"))>>,
     <<Pred("minute", "gte", NumVal("3")), Pred("type", "eq", StrVal("impression"))>>,
     <<Pred("country", "eq", StrVal("1")), Pred("day", "neq", StrVal("2"))>>,
     <<Pred("type", "in", ArrVal(<<"click", "serve">>))>>,
     <<Pred("day", "between", ArrVal(<<"1">>))>>,
     <<Pred("day", "between", ArrVal(<<"1", "2", "3">>))>>,
     <<Pred("type", "eq", StrVal("click")), Pred("country", "like", StrVal("1"))>>}

GroupByChoices ==
    {<<>>, <<"country">>, <<"minute">>, <<"type">>, <<"day", "country">>,
     <<"auction_id">>}

OrderItem(fn, col, dir) == [fn |-> fn, col |-> col, dir |-> dir]

\* from, order_by, limit
ShapeChoices ==
    {[from |-> Some("events"), order_by |-> <<>>, limit |-> None],
     [from |-> None, order_by |-> <<>>, limit |-> None],
     [from |-> Some("events"),
      order_by |-> <<OrderItem(Some("sum"), "total_price", Some("desc"))>>,
      limit |-> Some(10)],
     [from |-> Some("events"),
      order_by |-> <<OrderItem(None, "country", None),
                     OrderItem(Some("median"), "bid_price", Some("asc"))>>,
      limit |-> None],
     [from |-> Some("events"),
      order_by |-> <<OrderItem(Some("count"), "*", None),
                     OrderItem(Some("AVG"), "bid_price", Some("DESC")),
                     OrderItem(None, "day", Some("asc"))>>,
      limit |-> None]}

Query(select, shape, where, group_by) ==
    [select |-> select, from |-> shape.from, where |-> where,
     group_by |-> group_by, order_by |-> shape.order_by, limit |-> shape.limit]

DefaultShape == [from |-> Some("events"), order_by |-> <<>>, limit |-> None]

\* every select, where and group_by in the default shape, and every shape on
\* a few of them
Queries ==
    {Query(s, DefaultShape, w, g) :
        s \in SelectChoices, w \in WhereChoices, g \in GroupByChoices}
    \cup
    {Query(s, sh, w, g) :
        s \in {<<AggItem("count", "*")>>,
               <<ColItem("country"), AggItem("sum", "total_price")>>},
        sh \in ShapeChoices,
        w \in {<<>>, <<Pred("type", "eq", StrVal("click"))>>},
        g \in {<<>>, <<"country">>, <<"auction_id">>}}

(***************************************************************************)
(* main.rs: the run as a state machine                                     *)
(***************************************************************************)
\* the execution loop has not been entered
NoExec ==
    [runs |-> 0, n |-> 0, run |-> 0, pos |-> 0, log |-> <<>>, failed |-> None,
     status |-> "none"]

NoSql ==
    [status |-> "none", select |-> <<>>, from |-> "", where |-> <<>>,
     group_by |-> <<>>, order_by |-> <<>>, limit |-> None]

\* an existing database holds no MV table, or what an earlier build left
Init ==
    /\ events \in Profiles
    /\ hw \in Hardwares
    /\ useExisting \in BOOLEAN
    /\ db \in IF useExisting THEN {{}, BuiltTables(events)} ELSE {{}}
    /\ phase = "start"
    /\ mvs = <<>>
    /\ query = None
    /\ picked = None
    /\ sql = NoSql
    /\ call = None
    /\ ret = None
    /\ exec = NoExec

\* create_materialized_views that goes on to the next MV when a CREATE fails
\* and returns the error after the loop
CreateMaterializedViewsPastFailure ==
    /\ phase = "start"
    /\ ~useExisting
    /\ \E failed \in 0..Len(CreateMvRegistry) :
           IF failed = 0
           THEN /\ mvs' = CreateMvRegistry
                /\ db' = CreateMaterializedViewsTables(db)
                /\ phase' = "created"
           ELSE /\ mvs' = mvs
                /\ db' = CreateTables(db,
                              SelectSeq(BaseTables,
                                        LAMBDA t : t # BaseTables[failed]))
                /\ phase' = "failed"
    /\ UNCHANGED <<events, hw, useExisting, query, picked, sql, call, ret, exec>>

\* create_materialized_views(&file_con)? of the preprocessing block.  The
\* engine may fail any CREATE TABLE (`failed` is its position, 0 for none):
\* the `?` of the loop returns there and the `?` of main ends the process
CreateMaterializedViews ==
    /\ phase = "start"
    /\ ~useExisting
    /\ \E failed \in 0..Len(CreateMvRegistry) :
           IF failed = 0
           THEN /\ mvs' = CreateMvRegistry
                /\ db' = CreateMaterializedViewsTables(db)
                /\ phase' = "created"
           ELSE /\ mvs' = mvs
                /\ db' = CreateTables(db, SubSeq(BaseTables, 1, failed - 1))
                /\ phase' = "failed"
    /\ UNCHANGED <<events, hw, useExisting, query, picked, sql, call, ret, exec>>

\* compute_mv_stats(&file_con, &mut mvs) on the base MVs
ComputeBaseStats ==
    /\ phase = "created"
    /\ mvs' = ComputeMvStats(events, db, mvs)
    /\ phase' = "base_stats"
    /\ UNCHANGED <<events, hw, useExisting, db, query, picked, sql, call, ret, exec>>

\* create_type_partitioned_materialized_views(..)? and mvs.append; a failed
\* CREATE TABLE returns from the loop and ends the process
CreateTypePartitionedMaterializedViews ==
    /\ phase = "base_stats"
    /\ \E partitioned_mvs \in {PartitionedMvsFor(events, db, mvs)} :
           \E failed \in 0..Len(partitioned_mvs) :
               IF failed = 0
               THEN /\ db' = CreateTables(db, [i \in 1..Len(partitioned_mvs) |->
                                   PartitionedTableOf(partitioned_mvs[i])])
                    /\ mvs' = mvs \o partitioned_mvs
                    /\ phase' = "partitioned"
               ELSE /\ db' = CreateTables(db, [i \in 1..(failed - 1) |->
                                   PartitionedTableOf(partitioned_mvs[i])])
                    /\ mvs' = mvs
                    /\ phase' = "failed"
    /\ UNCHANGED <<events, hw, useExisting, query, picked, sql, call, ret, exec>>

\* compute_mv_stats on the slice of the partitioned MVs
ComputePartitionedStats ==
    /\ phase = "partitioned"
    /\ mvs' = [i \in 1..Len(mvs) |->
                 IF i > Len(CreateMvRegistry)
                 THEN ComputeStatsOf(events, db, mvs[i]) ELSE mvs[i]]
    /\ phase' = "partitioned_stats"
    /\ UNCHANGED <<events, hw, useExisting, db, query, picked, sql, call, ret, exec>>

\* the CREATE INDEX statements create_indexes issues for one MV: the columns
\* of each of its nine patterns whose keys the MV groups by
IndexesOf(mv) ==
    {cols \in {<<"type", "day">>, <<"day">>, <<"type">>, <<"country">>,
               <<"type", "country">>, <<"advertiser_id">>, <<"publisher_id">>,
               <<"minute">>, <<"week">>} :
        \A i \in 1..Len(cols) : Contains(mv.group_by, cols[i])}

\* the statements of the whole loop, each with the MV it indexes
IndexStatements(list) ==
    UNION {{<<list[i].name, cols>> : cols \in IndexesOf(list[i])} :
              i \in 1..Len(list)}

\* create_indexes returning the error of a failed CREATE INDEX
CreateIndexesAborting ==
    /\ phase = "partitioned_stats"
    /\ \E failed \in {None} \cup {Some(ix) : ix \in IndexStatements(mvs)} :
           phase' = IF failed = None THEN "preprocessed" ELSE "failed"
    /\ UNCHANGED <<events, hw, useExisting, db, mvs, query, picked, sql, call, ret, exec>>

\* create_indexes(&file_con, &mvs)?: the engine may fail a CREATE INDEX
\* (`failed`); the loop prints a warning, goes on and returns Ok(()).  An
\* index is no table and no column, so nothing the run reads later changes
CreateIndexes ==
    /\ phase = "partitioned_stats"
    /\ \E failed \in {None} \cup {Some(ix) : ix \in IndexStatements(mvs)} :
           phase' = "preprocessed"
    /\ UNCHANGED <<events, hw, useExisting, db, mvs, query, picked, sql, call, ret, exec>>

\* load_all_mvs_from_db, and create_materialized_views if it finds nothing
LoadMvs ==
    /\ \/ phase = "preprocessed"
       \/ phase = "start" /\ useExisting
    /\ IF LoadAllMvsFromDb(db) = <<>>
       THEN \E failed \in 0..Len(CreateMvRegistry) :
                IF failed = 0
                THEN /\ mvs' = CreateMvRegistry
                     /\ db' = CreateMaterializedViewsTables(db)
                     /\ phase' = "loaded"
                ELSE /\ mvs' = mvs
                     /\ db' = CreateTables(db, SubSeq(BaseTables, 1, failed - 1))
                     /\ phase' = "failed"
       ELSE /\ mvs' = LoadAllMvsFromDb(db)
            /\ db' = db
            /\ phase' = "loaded"
    /\ UNCHANGED <<events, hw, useExisting, query, picked, sql, call, ret, exec>>

\* a run that leaves the stats to be collected when a query first needs them
ComputeRunStatsDeferred ==
    /\ phase = "loaded"
    /\ mvs' = mvs
    /\ phase' = "ready"
    /\ UNCHANGED <<events, hw, useExisting, db, query, picked, sql, call, ret, exec>>

\* compute_mv_stats(&con, &mut mvs) before planning
ComputeRunStats ==
    /\ phase = "loaded"
    /\ mvs' = ComputeMvStats(events, db, mvs)
    /\ phase' = "ready"
    /\ UNCHANGED <<events, hw, useExisting, db, query, picked, sql, call, ret, exec>>

\* translate_query using its mutable slice to move the MV it picked to the
\* front of the list
TranslateMovingPickedFirst(q) ==
    /\ phase = "ready"
    /\ query' = Some(q)
    /\ \E r \in {TranslateQuery(q, mvs, hw)} :
           /\ picked' = r.picked
           /\ sql' = r.sql
           /\ phase' = IF r.sql.status = "panic" THEN "aborted" ELSE "translated"
           /\ mvs' = IF IsSome(r.picked)
                     THEN <<mvs[Get(r.picked)]>>
                          \o SubSeq(mvs, 1, Get(r.picked) - 1)
                          \o SubSeq(mvs, Get(r.picked) + 1, Len(mvs))
                     ELSE mvs
    /\ UNCHANGED <<events, hw, useExisting, db, call, ret, exec>>

\* planner.translate_query(q, &mut mvs, false) on the next query of the batch;
\* a panic ends the process
Translate(q) ==
    /\ phase = "ready"
    /\ query' = Some(q)
    /\ \E r \in {TranslateQuery(q, mvs, hw)} :
           /\ picked' = r.picked
           /\ sql' = r.sql
           /\ phase' = IF r.sql.status = "panic" THEN "aborted" ELSE "translated"
    /\ UNCHANGED <<events, hw, useExisting, db, mvs, call, ret, exec>>

\* the statement joins sql_queries and the map goes on to the next query;
\* the planner keeps nothing of the call
CollectSql ==
    /\ phase = "translated"
    /\ phase' = "ready"
    /\ query' = None
    /\ picked' = None
    /\ sql' = NoSql
    /\ UNCHANGED <<events, hw, useExisting, db, mvs, call, ret, exec>>

Next ==
    \/ CreateMaterializedViews
    \/ ComputeBaseStats
    \/ CreateTypePartitionedMaterializedViews
    \/ ComputePartitionedStats
    \/ CreateIndexes
    \/ LoadMvs
    \/ ComputeRunStats
    \/ \E q \in Queries : Translate(q)
    \/ CollectSql

Spec == Init /\ [][Next]_vars

(***************************************************************************)
(* agg_derivable applied on its own, as is_mv_usable applies it to one     *)
(* select object and one MV                                                *)
(***************************************************************************)
\* the aggregates an MV of these runs may store
AggUniverse ==
    {AggNew("SUM", Some("bid_price")), AggNew("SUM", Some("total_price")),
     AggNew("COUNT", None), AggNew("COUNT", Some("bid_price")),
     AggNew("COUNT", Some("total_price")), AggNew("MIN", Some("bid_price")),
     AggNew("MAX", Some("bid_price")), AggNew("AVG", Some("bid_price"))}

InitAgg ==
    /\ events = Profile({}, 0, 0, 0, 0, 0, 0, 0)
    /\ hw \in {h \in Hardwares : h.num_threads = 10}
    /\ useExisting = FALSE
    /\ db = {}
    /\ phase = "start"
    /\ mvs = <<>>
    /\ query = None
    /\ picked = None
    /\ sql = NoSql
    /\ call = None
    /\ ret = None
    /\ exec = NoExec

\* lines 101-113 of is_mv_usable on the select object {op: col} and an MV
\* storing `aggs`
CallAggDerivable(op, col, aggs) ==
    /\ call = None
    /\ call' = Some([fn |-> "agg_derivable", item |-> AggItem(op, col), aggs |-> aggs])
    /\ ret' = Some(AggDerivable(ItemAgg(AggItem(op, col)),
                                MaterializedViewNew(<<"mv">>, <<"type">>, aggs)))
    /\ UNCHANGED <<events, hw, useExisting, db, phase, mvs, query, picked, sql, exec>>

NextAgg ==
    \E op \in OpSpellings, col \in {"bid_price", "total_price", "*"},
       aggs \in SUBSET AggUniverse :
        CallAggDerivable(op, col, aggs)

SpecAgg == InitAgg /\ [][NextAgg]_vars

(***************************************************************************)
(* create_type_partitioned_mvs applied on its own to a list of base MVs    *)
(***************************************************************************)
\* a base MV as the function reads it: name, group_by, aggs and num_rows
BaseMv(name, group_by, aggs, num_rows) ==
    [MaterializedViewNew(name, group_by, aggs) EXCEPT !.num_rows = num_rows]

BaseGroupBys ==
    {<<"type">>, <<"type", "day">>, <<"day", "type", "country">>,
     <<"week", "day", "type">>, <<"country">>, <<>>}

\* no count yet, an empty table, and the counts around the threshold
BaseRowCounts ==
    {None, Some(0), Some(PartitionThreshold - 1), Some(PartitionThreshold),
     Some(PartitionThreshold + 1)}

BaseMvsNamed(name) ==
    {BaseMv(name, g, a, n) :
        g \in BaseGroupBys, n \in BaseRowCounts,
        a \in {CommonAggs, {AggNew("MIN", Some("bid_price"))}}}

\* lists of one or two base MVs of distinct names
BaseMvLists ==
    {<<m>> : m \in BaseMvsNamed(<<"mv", "a">>)}
    \cup {<<m, n>> : m \in {x \in BaseMvsNamed(<<"mv", "a">>) : x.aggs = CommonAggs},
                     n \in {x \in BaseMvsNamed(<<"mv", "b", "fast">>) :
                               x.aggs = CommonAggs}}

CallCreateTypePartitionedMvs(base_mvs) ==
    /\ call = None
    /\ call' = Some([fn |-> "create_type_partitioned_mvs", base_mvs |-> base_mvs])
    /\ ret' = Some(CreateTypePartitionedMvs(base_mvs))
    /\ UNCHANGED <<events, hw, useExisting, db, phase, mvs, query, picked, sql, exec>>

NextPartition ==
    \E base_mvs \in BaseMvLists : CallCreateTypePartitionedMvs(base_mvs)

SpecPartition == InitAgg /\ [][NextPartition]_vars

(***************************************************************************)
(* mv_cost applied on its own, as translate_query applies it to a query    *)
(* and a usable MV, the MV's num_rows being set apart from its other stats *)
(***************************************************************************)
\* the base MVs with the stats of a small and of a large fact table
CostMvs ==
    UNION {Range(ComputeMvStats(w, CreateMaterializedViewsTables({}),
                                CreateMvRegistry)) :
              w \in {Profile(EventTypes, 1, 1, 1, 1, 1, 2, 1),
                      Profile(EventTypes, 200, 30, 1, 150, 2, 1500, 50)}}

\* the row counts an MV is costed with: its own and larger ones
CostRowCounts(mv) ==
    {Get(mv.num_rows), Get(mv.num_rows) + 1, 2 * Get(mv.num_rows),
     10 * Get(mv.num_rows)}

CostQueries ==
    {Query(<<AggItem("count", "*")>>, DefaultShape, w, g) :
        w \in {<<>>,
               <<Pred("type", "eq", StrVal("click"))>>,
               <<Pred("type", "eq", StrVal("other"))>>,
               <<Pred("type", "neq", StrVal("serve"))>>,
               <<Pred("day", "between", ArrVal(<<"1", "3">>))>>,
               <<Pred("type", "in", ArrVal(<<"click", "serve">>))>>,
               <<Pred("country", "in", ArrVal(<<"1", "11", "0">>))>>,
               <<Pred("type", "eq", StrVal("click")), Pred("day", "lt", StrVal("5"))>>},
        g \in {<<>>, <<"type">>, <<"day">>}}

\* memory and threads below, at and above the reference machine
CostHardwares ==
    {[num_threads |-> t, available_memory_gb |-> F(m)] :
        t \in {5, 10, 20}, m \in {9, 18, 36}}

InitCost ==
    /\ events = Profile({}, 0, 0, 0, 0, 0, 0, 0)
    /\ hw \in CostHardwares
    /\ useExisting = FALSE
    /\ db = {}
    /\ phase = "start"
    /\ mvs = <<>>
    /\ query = None
    /\ picked = None
    /\ sql = NoSql
    /\ call = None
    /\ ret = None
    /\ exec = NoExec

CallMvCost(q, mv, rows) ==
    /\ call = None
    /\ IsMvUsable(q, mv)
    /\ call' = Some([fn |-> "mv_cost", query |-> q,
                     mv |-> [mv EXCEPT !.num_rows = Some(rows)]])
    /\ ret' = Some(MvCost(q, [mv EXCEPT !.num_rows = Some(rows)], hw))
    /\ UNCHANGED <<events, hw, useExisting, db, phase, mvs, query, picked, sql, exec>>

NextCost ==
    \E q \in CostQueries, mv \in {m \in CostMvs : Get(m.num_rows) <= 200000} :
        \E rows \in CostRowCounts(mv) : CallMvCost(q, mv, rows)

SpecCost == InitCost /\ [][NextCost]_vars

(***************************************************************************)
(* main.rs: the execution loop over the prepared statements, on its own.   *)
(* exec holds args.runs, the number n of prepared statements, the run and  *)
(* the position in it (0 at BEGIN TRANSACTION, i at statement i, n + 1 at  *)
(* COMMIT), the log of the calls made, the error main returned if any, and *)
(* whether main is running, has returned the error or has finished.        *)
(***************************************************************************)
MaxRuns == 3

MaxStatements == 3

Logged(what, run, i) == [what |-> what, run |-> run, i |-> i]

InitExec ==
    /\ events = Profile({}, 0, 0, 0, 0, 0, 0, 0)
    /\ hw \in {h \in Hardwares : h.num_threads = 10}
    /\ useExisting = FALSE
    /\ db = {}
    /\ phase = "start"
    /\ mvs = <<>>
    /\ query = None
    /\ picked = None
    /\ sql = NoSql
    /\ call = None
    /\ ret = None
    /\ \E runs \in 0..MaxRuns, n \in 0..MaxStatements :
           exec = [runs |-> runs, n |-> n, run |-> 1, pos |-> 0, log |-> <<>>,
                   failed |-> None,
                   status |-> IF runs = 0 THEN "done" ELSE "running"]

\* con.execute("BEGIN TRANSACTION", [])? at the top of a run
BeginTransaction ==
    /\ exec.status = "running"
    /\ exec.pos = 0
    /\ \E ok \in BOOLEAN :
           exec' = IF ok
                   THEN [exec EXCEPT !.pos = 1,
                                     !.log = Append(@, Logged("begin", exec.run, 0))]
                   ELSE [exec EXCEPT !.status = "failed",
                                     !.failed = Some(Logged("begin", exec.run, 0)),
                                     !.log = Append(@, Logged("begin", exec.run, 0))]
    /\ UNCHANGED <<events, hw, useExisting, db, phase, mvs, query, picked, sql,
                   call, ret>>

\* the loop body on a failed stmt.query that records the error, goes on with
\* the next statement and returns the error after the runs
ExecuteStatementPastFailure ==
    /\ exec.status = "running"
    /\ exec.pos \in 1..exec.n
    /\ \E outcome \in {"ok", "query_error", "write_error"} :
           exec' =
             CASE outcome = "query_error" ->
                    [exec EXCEPT
                       !.pos = @ + 1,
                       !.failed = Some(Logged("query", exec.run, exec.pos)),
                       !.log = Append(@, Logged("query", exec.run, exec.pos))]
               [] outcome = "write_error" /\ exec.run = 1 ->
                    [exec EXCEPT
                       !.status = "failed",
                       !.failed = Some(Logged("write", exec.run, exec.pos)),
                       !.log = @ \o <<Logged("query", exec.run, exec.pos),
                                      Logged("write", exec.run, exec.pos)>>]
               [] OTHER ->
                    [exec EXCEPT
                       !.pos = @ + 1,
                       !.log = @ \o (IF exec.run = 1
                                     THEN <<Logged("query", exec.run, exec.pos),
                                            Logged("write", exec.run, exec.pos)>>
                                     ELSE <<Logged("query", exec.run, exec.pos)>>)]
    /\ UNCHANGED <<events, hw, useExisting, db, phase, mvs, query, picked, sql,
                   call, ret>>

\* one iteration of the inner loop: stmt.query([])?, then in the first run
\* write_single_result_to_csv(i + 1, rows, output_dir)?.  The engine may fail
\* the query, the file system the write; either `?` returns from main
ExecuteStatement ==
    /\ exec.status = "running"
    /\ exec.pos \in 1..exec.n
    /\ \E outcome \in {"ok", "query_error", "write_error"} :
           exec' =
             CASE outcome = "query_error" ->
                    [exec EXCEPT
                       !.status = "failed",
                       !.failed = Some(Logged("query", exec.run, exec.pos)),
                       !.log = Append(@, Logged("query", exec.run, exec.pos))]
               [] outcome = "write_error" /\ exec.run = 1 ->
                    [exec EXCEPT
                       !.status = "failed",
                       !.failed = Some(Logged("write", exec.run, exec.pos)),
                       !.log = @ \o <<Logged("query", exec.run, exec.pos),
                                      Logged("write", exec.run, exec.pos)>>]
               [] OTHER ->
                    [exec EXCEPT
                       !.pos = @ + 1,
                       !.log = @ \o (IF exec.run = 1
                                     THEN <<Logged("query", exec.run, exec.pos),
                                            Logged("write", exec.run, exec.pos)>>
                                     ELSE <<Logged("query", exec.run, exec.pos)>>)]
    /\ UNCHANGED <<events, hw, useExisting, db, phase, mvs, query, picked, sql,
                   call, ret>>

\* con.execute("COMMIT", [])? and the step of `for run in 1..=args.runs`
Commit ==
    /\ exec.status = "running"
    /\ exec.pos = exec.n + 1
    /\ \E ok \in BOOLEAN :
           exec' = IF ok
                   THEN [exec EXCEPT
                           !.run = @ + 1,
                           !.pos = 0,
                           !.status = IF exec.run = exec.runs THEN "done"
                                      ELSE "running",
                           !.log = Append(@, Logged("commit", exec.run, 0))]
                   ELSE [exec EXCEPT
                           !.status = "failed",
                           !.failed = Some(Logged("commit", exec.run, 0)),
                           !.log = Append(@, Logged("commit", exec.run, 0))]
    /\ UNCHANGED <<events, hw, useExisting, db, phase, mvs, query, picked, sql,
                   call, ret>>

NextExec ==
    \/ BeginTransaction
    \/ ExecuteStatement
    \/ Commit

SpecExec == InitExec /\ [][NextExec]_vars

(***************************************************************************)
(* A fresh build and run over a small fact table, whose rows the engine    *)
(* holds one by one                                                        *)
(***************************************************************************)
InitEval ==
    /\ events \in RowWorlds
    /\ hw \in {h \in Hardwares : h.num_threads = 10}
    /\ useExisting = FALSE
    /\ db = {}
    /\ phase = "start"
    /\ mvs = <<>>
    /\ query = None
    /\ picked = None
    /\ sql = NoSql
    /\ call = None
    /\ ret = None
    /\ exec = NoExec

SpecEval == InitEval /\ [][Next]_vars

(***************************************************************************)
(* The statements of the specification, in its own terms                   *)
(***************************************************************************)
\* an MV create_type_partitioned_mvs produces: <parent>_type_<value>
IsSibling(mv) ==
    \E i \in 1..Len(CreateMvRegistry), v \in Range(PartitionTypes) :
        mv.name = CreateMvRegistry[i].name \o <<"type", v>>

SiblingValue(mv) == mv.name[Len(mv.name)]

\* Q.where holds the predicate `type eq v`
HasTypeEq(q, v) ==
    \E i \in 1..Len(q.where) : q.where[i] = Pred("type", "eq", StrVal(v))

\* derivability as the specification words it, on a select object
ManualDerivable(item, aggs) ==
    LET op == ToUppercase(item.op)
        c == IF item.col = "*" THEN None ELSE Some(item.col)
    IN  CASE op \in {"SUM", "MIN", "MAX", "COUNT"} ->
                [op |-> op, column |-> c] \in aggs
          [] op = "AVG" ->
                /\ [op |-> "SUM", column |-> c] \in aggs
                /\ [op |-> "COUNT", column |-> c] \in aggs
          [] OTHER -> FALSE

\* the four usability tests against a key set and an aggregate set
ManualUsable(q, keys, aggs) ==
    /\ Range(q.group_by) \subseteq keys
    /\ \A i \in 1..Len(q.where) : q.where[i].col \in keys
    /\ \A i \in 1..Len(q.select) :
           IF q.select[i].kind = "col" THEN q.select[i].col \in keys
           ELSE ManualDerivable(q.select[i], aggs)

\* the MV translate_query picked
PickedMv == mvs[Get(picked)]

UsableIndexes == {i \in 1..Len(mvs) : IsMvUsable(Get(query), mvs[i])}

\* Q lists its bare select columns in group_by and has no order_by or limit
IsPlainGrouping(q) ==
    /\ \A k \in 1..Len(q.select) :
           q.select[k].kind = "col" => Contains(q.group_by, q.select[k].col)
    /\ q.order_by = <<>>
    /\ q.limit = None

\* C1: the statement emitted for the picked MV returns, over the MV's table,
\* the multiset of rows the query returns over events
C1_SameRowsAsEvents ==
    (phase = "translated" /\ IsSome(picked) /\ events.kind = "rows"
        /\ IsPlainGrouping(Get(query))) =>
        EvalSql(sql, TableNamed(db, PickedMv.name), events)
            = EvalQuery(Get(query), events.rows)

\* C2 as stated: the MV translate_query picks passes the four usability
\* tests against its own keys and aggregates
C2_PickedPassesFourTests ==
    (IsSome(query) /\ IsSome(picked)) =>
        ManualUsable(Get(query), Range(PickedMv.group_by), PickedMv.aggs)

\* C2: the MV translate_query picks passes the four usability tests, `type`
\* counting as a key of the MV when the MV is a type-partitioned sibling
C2_PickedIsUsable ==
    (IsSome(query) /\ IsSome(picked)) =>
        ManualUsable(Get(query),
                     Range(PickedMv.group_by)
                         \cup (IF IsSibling(PickedMv) THEN {"type"} ELSE {}),
                     PickedMv.aggs)

\* a sibling is picked for a query that filters and groups on other keys too
C2_Witness ==
    /\ phase = "translated"
    /\ IsSome(picked)
    /\ IsSibling(PickedMv)
    /\ Len(Get(query).where) = 2
    /\ Get(query).group_by # <<>>

\* C3: a sibling for value v is picked only when the query holds `type eq v`
C3_SiblingOnlyWithTypeEq ==
    (IsSome(query) /\ IsSome(picked) /\ IsSibling(PickedMv)) =>
        HasTypeEq(Get(query), SiblingValue(PickedMv))

\* C4: a sibling for value v is usable for Q exactly when Q holds `type eq v`
\* and passes the four tests with `type` among the sibling's keys
C4_SiblingUsableExactly ==
    IsSome(query) =>
        \A i \in 1..Len(mvs) :
            IsSibling(mvs[i]) =>
                (IsMvUsable(Get(query), mvs[i])
                    <=> /\ HasTypeEq(Get(query), SiblingValue(mvs[i]))
                        /\ ManualUsable(Get(query),
                                        Range(mvs[i].group_by) \cup {"type"},
                                        mvs[i].aggs))

\* C5: with no usable MV the statement is the plain translation reading FROM
\* the query's table, `events` when the query names none
C5_FallbackReadsEvents ==
    (phase = "translated" /\ UsableIndexes = {}) =>
        sql = [AssembleSql(Get(query)) EXCEPT
                  !.from = IF IsSome(Get(query).from) THEN Get(Get(query).from)
                           ELSE "events"]

\* C6: when some MV is usable, the statement reads a usable MV whose adjusted
\* cost is at most that of every usable MV
C6_PicksMinimumCost ==
    (IsSome(query) /\ UsableIndexes # {}) =>
        /\ IsSome(picked)
        /\ Get(picked) \in UsableIndexes
        /\ \A j \in UsableIndexes :
               FLe(AdjustedCost(Get(query), PickedMv, hw),
                   AdjustedCost(Get(query), mvs[j], hw))

\* C7: among the usable MVs of the picked MV's adjusted cost, the picked one
\* has the name that sorts first
C7_TieGoesToFirstName ==
    (IsSome(query) /\ IsSome(picked)) =>
        \A j \in UsableIndexes :
            AdjustedCost(Get(query), mvs[j], hw)
                    = AdjustedCost(Get(query), PickedMv, hw)
                => ~NameLess(mvs[j].name, PickedMv.name)

\* C8: against a sibling, the WHERE clause has no `type` condition and one
\* condition, in order, for every other predicate of Q.where
C8_KeepsOtherPredicates ==
    (phase = "translated" /\ IsSome(picked) /\ IsSibling(PickedMv)) =>
        LET NotType(p) == p.col # "type"
            others == SelectSeq(Get(query).where, NotType)
        IN  /\ Len(sql.where) = Len(others)
            /\ \A k \in 1..Len(sql.where) : sql.where[k].col = others[k].col

\* the select part the specification gives an aggregate over an MV
SpecifiedPart(item) ==
    LET op == ToUppercase(item.op)
        c == IF item.col = "*" THEN None ELSE Some(item.col)
        alias == IF op = "COUNT" /\ item.col = "*" THEN "count_star()"
                 ELSE ToLowercase(item.op) \o "(" \o item.col \o ")"
    IN  CASE op \in {"SUM", "COUNT"} ->
                Part(Expr("SUM", <<MetricColName(op, c)>>), Some(alias))
          [] op \in {"MIN", "MAX"} ->
                Part(Expr(op, <<MetricColName(op, c)>>), Some(alias))
          [] op = "AVG" ->
                Part(Expr("SUM_DIV_SUM",
                          <<MetricColName("sum", c), MetricColName("count", c)>>),
                     Some(alias))
          [] OTHER -> Part(Expr("", <<>>), None)

\* C10: every aggregate of Q.select is emitted over the MV as the
\* specification gives it, the alias of COUNT(*) being count_star()
C10_AggregateEmission ==
    (phase = "translated" /\ IsSome(picked)) =>
        \A k \in 1..Len(Get(query).select) :
            Get(query).select[k].kind = "agg" =>
                sql.select[k] = SpecifiedPart(Get(query).select[k])

\* C9: agg_derivable on a select object and an MV is true exactly when SUM,
\* MIN, MAX, COUNT(c) or COUNT(*) is stored as such, or AVG(c) has both SUM(c)
\* and COUNT(c) stored; the op in any letter case, "*" being no column
C9_AggDerivableExactly ==
    IsSome(call) =>
        Get(ret) = ManualDerivable(Get(call).item, Get(call).aggs)

\* avg in mixed case is derived from a stored SUM and COUNT and nothing else
C9_Witness ==
    /\ IsSome(call)
    /\ Get(call).item = AggItem("Avg", "bid_price")
    /\ Get(call).aggs = {AggNew("SUM", Some("bid_price")),
                         AggNew("COUNT", Some("bid_price"))}
    /\ Get(ret) = TRUE

\* a base MV that is given siblings: `type` is a key and no row count below
\* the threshold is recorded
GetsSiblings(mv) ==
    /\ Contains(mv.group_by, "type")
    /\ ~(IsSome(mv.num_rows) /\ Get(mv.num_rows) < 100000)

\* the keys of a parent without `type`, in the parent's order
KeysMinusType(group_by) == SelectSeq(group_by, LAMBDA c : c # "type")

\* C11: create_type_partitioned_mvs returns, for every base MV with `type`
\* among its keys and no num_rows below 100 000, exactly one sibling per event
\* type, named <parent>_type_<value>, with the parent's keys minus `type` in
\* order and the parent's aggs; it returns nothing else
C11_SiblingsExactly ==
    (IsSome(call) /\ Get(call).fn = "create_type_partitioned_mvs") =>
        LET base == Get(call).base_mvs
            out == Get(ret)
            parents == {i \in 1..Len(base) : GetsSiblings(base[i])}
            values == {"impression", "click", "serve", "purchase"}
        IN  /\ Len(out) = 4 * Cardinality(parents)
            /\ \A i \in parents, v \in values :
                   /\ Cardinality({j \in 1..Len(out) :
                          out[j].name = base[i].name \o <<"type", v>>}) = 1
                   /\ \A j \in 1..Len(out) :
                          out[j].name = base[i].name \o <<"type", v>> =>
                              /\ out[j].group_by = KeysMinusType(base[i].group_by)
                              /\ out[j].aggs = base[i].aggs
            /\ \A j \in 1..Len(out) :
                   \E i \in parents, v \in values :
                       out[j].name = base[i].name \o <<"type", v>>

\* a parent of exactly 100 000 rows gets its four siblings next to a parent
\* of 99 999 rows that gets none
C11_Witness ==
    /\ IsSome(call)
    /\ Get(call).fn = "create_type_partitioned_mvs"
    /\ Len(Get(call).base_mvs) = 2
    /\ Get(call).base_mvs[1].group_by = <<"day", "type", "country">>
    /\ Get(call).base_mvs[1].num_rows = Some(99999)
    /\ Get(call).base_mvs[2].group_by = <<"week", "day", "type">>
    /\ Get(call).base_mvs[2].num_rows = Some(100000)
    /\ Len(Get(ret)) = 4
    /\ Get(ret)[2].name = <<"mv", "b", "fast", "type", "click">>
    /\ Get(ret)[2].group_by = <<"week", "day">>

\* a predicate the query format does not allow: an op outside the eight of
\* the format, or a `between` whose array does not hold exactly two values
IsMalformedPredicate(p) ==
    \/ p.op \notin {"eq", "neq", "in", "between", "lt", "lte", "gt", "gte"}
    \/ p.op = "between" /\ p.val.kind = "arr" /\ Len(p.val.arr) # 2

\* C12: a query holding a predicate with an unknown op, or a `between` over
\* one or over three or more values, is never translated into a statement
C12_MalformedRejected ==
    (phase = "translated" /\ sql.status = "ok") =>
        \A i \in 1..Len(Get(query).where) :
            ~IsMalformedPredicate(Get(query).where[i])

\* Q.select holds an aggregate whose op is none of COUNT, SUM, MIN, MAX, AVG
HasUnknownAggregate(q) ==
    \E k \in 1..Len(q.select) :
        /\ q.select[k].kind = "agg"
        /\ ToUppercase(q.select[k].op) \notin {"COUNT", "SUM", "MIN", "MAX", "AVG"}

\* C13: translate_query answers a query with an unknown aggregate in its
\* select list by an error: it returns no statement for it, neither over an
\* MV nor over the events table
C13_UnknownAggregateIsError ==
    (IsSome(query) /\ HasUnknownAggregate(Get(query))) => sql.status # "ok"

\* C14: over every MV whose cost translate_query computes, predicate_selectivity
\* of every predicate of the query with a supported op lies in [0, 1]
C14_SelectivityInUnitInterval ==
    IsSome(query) =>
        \A i \in UsableIndexes, k \in 1..Len(Get(query).where) :
            Get(query).where[k].op
                \in {"eq", "neq", "in", "between", "lt", "lte", "gt", "gte"} =>
                    /\ FLe(F(0), PredicateSelectivity(Get(query).where[k], mvs[i]))
                    /\ FLe(PredicateSelectivity(Get(query).where[k], mvs[i]), F(1))

\* mv_cost is affine in weight `k` (1 the scan weight, 2 the rollup weight):
\* over the machines that differ from hw in that weight only, the change of
\* cost is proportional to the change of weight
AffineInWeight(k, q, mv) ==
    \A h2, h3 \in {h \in CostHardwares :
                      CostWeights(h)[3 - k] = CostWeights(hw)[3 - k]} :
        FMul(FSub(MvCost(q, mv, h2), MvCost(q, mv, hw)),
             FSub(CostWeights(h3)[k], CostWeights(hw)[k]))
        = FMul(FSub(MvCost(q, mv, h3), MvCost(q, mv, hw)),
               FSub(CostWeights(h2)[k], CostWeights(hw)[k]))

\* C15: with the query, the keys, num_distinct and top_k fixed, more rows in
\* the MV cost strictly more, and mv_cost is linear in each of the two weights
C15_CostMonotoneAndLinear ==
    (IsSome(call) /\ Get(call).fn = "mv_cost") =>
        LET q == Get(call).query
            mv == Get(call).mv
        IN  /\ \A more \in {n \in CostRowCounts(mv) : n > Get(mv.num_rows)} :
                   FLt(Get(ret), MvCost(q, [mv EXCEPT !.num_rows = Some(more)], hw))
            /\ AffineInWeight(1, q, mv)
            /\ AffineInWeight(2, q, mv)

\* the tables of a complete build in the order they are created: the base
\* MVs in registry order, then the siblings of the base MVs in `list`
BuildOrder(list) ==
    [i \in 1..Len(CreateMvRegistry) |->
        Table(CreateMvRegistry[i].name, CreateMvRegistry[i].group_by, None,
              MetricColumns(CreateMvRegistry[i]))]
    \o [i \in 1..Len(CreateTypePartitionedMvs(list)) |->
           PartitionedTableOf(CreateTypePartitionedMvs(list)[i])]

\* the build failed at an MV: the tables before it in build order exist, its
\* own and the later ones do not, and no query was translated
FailedAtFirstError ==
    phase = "failed" =>
        /\ query = None /\ picked = None /\ sql = NoSql
        /\ \E k \in 0..(Len(BuildOrder(mvs)) - 1) :
               db = {BuildOrder(mvs)[i] : i \in 1..k}

\* C16: when the CREATE of an MV fails, the builder stops there with the MVs
\* before it created and none after it, and the run takes no further step:
\* nothing is loaded, planned or served
C16_BuildFailureAborts ==
    []FailedAtFirstError /\ [][phase # "failed"]_vars

\* the sibling builder failed on its third MV, after the twelve base MVs and
\* two siblings were created
C16_Witness ==
    /\ phase = "failed"
    /\ Cardinality(db) = Len(CreateMvRegistry) + 2
    /\ Len(mvs) = Len(CreateMvRegistry)

\* the stats compute_mv_stats collects for an MV are all there
StatsCollected(mv) ==
    /\ IsSome(mv.num_rows)
    /\ \A c \in Range(mv.group_by) :
           c \in DOMAIN mv.num_distinct /\ c \in DOMAIN mv.col_to_topk

\* C17: when translate_query is first called the stats of every MV of the
\* list are collected, on a fresh build, on an existing database and when no
\* MV table was found; from then on no step changes the list
C17_StatsBeforePlanning ==
    /\ [](phase \in {"ready", "translated", "aborted"} =>
            \A i \in 1..Len(mvs) : StatsCollected(mvs[i]))
    /\ [][(phase \in {"ready", "translated", "aborted"}) => (mvs' = mvs)]_vars

\* a query was translated on the existing database that held no MV table:
\* the list is the registry, in its order, with stats
C17_Witness ==
    /\ phase = "translated"
    /\ useExisting
    /\ Len(mvs) = 12
    /\ mvs[1].name = <<"mv", "advertiser", "id", "full">>
    /\ IsSome(mvs[12].num_rows)

\* C19: a call of translate_query leaves the MV list as it was: the same MVs
\* in the same order with the same name, group_by, aggs, num_rows,
\* num_distinct and top_k
C19_TranslateKeepsMvs ==
    [][(phase = "ready" /\ IsSome(query')) =>
          /\ Len(mvs') = Len(mvs)
          /\ \A i \in 1..Len(mvs) :
                 /\ mvs'[i].name = mvs[i].name
                 /\ mvs'[i].group_by = mvs[i].group_by
                 /\ mvs'[i].aggs = mvs[i].aggs
                 /\ mvs'[i].num_rows = mvs[i].num_rows
                 /\ mvs'[i].num_distinct = mvs[i].num_distinct
                 /\ mvs'[i].col_to_topk = mvs[i].col_to_topk]_vars

\* translate_query picked an MV that is not the first of its list
C19_Witness ==
    /\ phase = "translated"
    /\ IsSome(picked)
    /\ Get(picked) > 1
    /\ HasStats(mvs[Get(picked)])

\* C20: once compute_mv_stats has returned, every MV it was given has
\* num_rows and, for each of its keys, a num_distinct entry and a top_k entry
\* of at most 10 values; an MV of the registry has none of them before
C20_StatsAfterCollection ==
    /\ phase \in {"base_stats", "partitioned_stats", "preprocessed", "ready"} =>
           \A i \in 1..Len(mvs) :
               /\ StatsCollected(mvs[i])
               /\ \A c \in Range(mvs[i].group_by) :
                      Cardinality(DOMAIN mvs[i].col_to_topk[c]) <= 10
    /\ phase = "partitioned" =>
           \A i \in 1..Len(CreateMvRegistry) : StatsCollected(mvs[i])
    /\ phase = "created" =>
           \A i \in 1..Len(mvs) :
               /\ mvs[i].num_rows = None
               /\ DOMAIN mvs[i].num_distinct = {}
               /\ DOMAIN mvs[i].col_to_topk = {}

\* the base MVs have their stats, and a key of 200 values has a top_k of 10
C20_Witness ==
    /\ phase = "base_stats"
    /\ mvs[2].num_distinct["day"] = 200
    /\ Cardinality(DOMAIN mvs[2].col_to_topk["day"]) = 10
    /\ mvs[2].num_rows = Some(800)

\* how many times the log holds this call
LogCount(what, run, i) ==
    Cardinality({k \in 1..Len(exec.log) : exec.log[k] = Logged(what, run, i)})

\* statement i of run r failed to execute: main has returned the error, the
\* statement was executed once, no later statement of the run and no
\* statement of a later run was executed, and no result file was written in
\* the run for statement i or a later one
StoppedAtFailedStatement ==
    (IsSome(exec.failed) /\ Get(exec.failed).what = "query") =>
        LET r == Get(exec.failed).run
            i == Get(exec.failed).i
        IN  /\ exec.status = "failed"
            /\ LogCount("query", r, i) = 1
            /\ \A k \in 1..Len(exec.log) :
                   /\ exec.log[k].run <= r
                   /\ exec.log[k].run = r => exec.log[k].i <= i
                   /\ (exec.log[k].run = r /\ exec.log[k].what = "write")
                          => exec.log[k].i < i
            /\ exec.log[Len(exec.log)] = Logged("query", r, i)

\* C18: a statement that fails to execute ends main with the error: it is
\* not retried, nothing is executed after it, no result file is written for
\* it or for a later statement of its run, and no further step is taken
C18_NoRetryAfterFailure ==
    []StoppedAtFailedStatement /\ [][exec.status # "failed"]_vars

\* the second of three statements failed in the first run, after the result
\* of the first statement was written
C18_Witness ==
    /\ exec.status = "failed"
    /\ exec.n = 3
    /\ exec.runs = 3
    /\ exec.failed = Some(Logged("query", 1, 2))
    /\ exec.log = <<Logged("begin", 1, 0), Logged("query", 1, 1),
                    Logged("write", 1, 1), Logged("query", 1, 2)>>

RECURSIVE ProductOfDistinct(_, _)
\* the product of num_distinct over the keys of `keys`
ProductOfDistinct(mv, keys) ==
    IF keys = <<>> THEN 1
    ELSE mv.num_distinct[Head(keys)] * ProductOfDistinct(mv, Tail(keys))

\* extra_groups as the specification gives it
SpecifiedExtraGroups(q, mv) ==
    IF q.group_by = mv.group_by THEN 1
    ELSE ProductOfDistinct(mv, SelectSeq(mv.group_by,
                                         LAMBDA k : ~Contains(q.group_by, k)))

\* C21: the extra_groups mv_cost uses is 1 when Q.group_by equals M.group_by
\* and otherwise the product of M.num_distinct over the keys of M that Q does
\* not group by, also for a Q without group_by
C21_ExtraGroups ==
    (IsSome(call) /\ Get(call).fn = "mv_cost") =>
        ExtraGroups(Get(call).query, Get(call).mv)
            = F(SpecifiedExtraGroups(Get(call).query, Get(call).mv))

\* the size-bucket factor of the specification for a row count
SpecifiedSizeFactor(rows) ==
    IF rows < 10000 THEN Frac(9, 10)
    ELSE IF rows < 100000 THEN Frac(19, 20)
    ELSE IF rows < 1000000 THEN F(1)
    ELSE Frac(21, 20)

\* C22: mv_cost returns the base cost times 0.8 when Q.group_by equals
\* M.group_by with no rollup, and times the size-bucket factor of M.num_rows
\* whether the group-by matches or not
C22_CostAdjustments ==
    (IsSome(call) /\ Get(call).fn = "mv_cost") =>
        LET q == Get(call).query
            mv == Get(call).mv
            exact == Range(q.group_by) = Range(mv.group_by) /\ ~HasRollup(q, mv)
        IN  Get(ret) = FMul(FMul(BaseCost(q, mv, hw),
                                 IF exact THEN Frac(4, 5) ELSE F(1)),
                            SpecifiedSizeFactor(Get(mv.num_rows)))

RECURSIVE SumOfEqSelectivities(_, _, _)
\* the sum, over the listed values, of count / num_rows for a value of top_k
\* and of 1 / num_distinct[col] for any other
SumOfEqSelectivities(arr, col, mv) ==
    IF arr = <<>> THEN F(0)
    ELSE FAdd(IF Head(arr) \in DOMAIN mv.col_to_topk[col]
              THEN FDiv(F(mv.col_to_topk[col][Head(arr)]), F(Get(mv.num_rows)))
              ELSE FDiv(F(1), F(mv.num_distinct[col])),
              SumOfEqSelectivities(Tail(arr), col, mv))

\* C23: predicate_selectivity of an `in` predicate is the sum of the
\* eq-selectivities of the listed values, capped at 1.0
C23_InSelectivity ==
    (IsSome(call) /\ Get(call).fn = "mv_cost") =>
        \A k \in 1..Len(Get(call).query.where) :
            LET p == Get(call).query.where[k]
            IN  (p.op = "in" /\ p.col \in DOMAIN Get(call).mv.col_to_topk) =>
                    PredicateSelectivity(p, Get(call).mv)
                        = FMin(SumOfEqSelectivities(p.val.arr, p.col, Get(call).mv),
                               F(1))

\* the direction of an ORDER BY item: as given, ASC by default
SpecifiedDirection(dir) ==
    IF dir = None \/ dir \in {Some("asc"), Some("ASC")} THEN "ASC" ELSE "DESC"

\* C24: over an MV every ORDER BY item fn(col) is emitted as the expression
\* select_over_mv emits for the aggregate {fn: col}, every other item as its
\* column, each with its direction, ASC when none is given
C24_OrderByRewritten ==
    (phase = "translated" /\ IsSome(picked)) =>
        /\ Len(sql.order_by) = Len(Get(query).order_by)
        /\ \A k \in 1..Len(Get(query).order_by) :
               LET o == Get(query).order_by[k]
               IN  /\ sql.order_by[k].dir = SpecifiedDirection(o.dir)
                   /\ sql.order_by[k].expr =
                          IF IsSome(o.fn)
                          THEN SelectPartOverMv(AggItem(Get(o.fn), o.col)).expr
                          ELSE Expr("", <<o.col>>)

\* ORDER BY count(*), AVG(bid_price) DESC, day asc over a picked MV
C24_Witness ==
    /\ phase = "translated"
    /\ IsSome(picked)
    /\ Len(sql.order_by) = 3
    /\ sql.order_by[1] = [expr |-> Expr("SUM", <<"count_rows">>), dir |-> "ASC"]
    /\ sql.order_by[2] =
           [expr |-> Expr("SUM_DIV_SUM", <<"sum_bid_price", "count_bid_price">>),
            dir |-> "DESC"]
    /\ sql.order_by[3] = [expr |-> Expr("", <<"day">>), dir |-> "ASC"]

\* every aggregate of Q, in select and in order_by, is COUNT, SUM, MIN, MAX
\* or AVG
AggregatesSupported(q) ==
    /\ ~HasUnknownAggregate(q)
    /\ \A k \in 1..Len(q.order_by) :
           IsSome(q.order_by[k].fn) =>
               ToUppercase(Get(q.order_by[k].fn))
                   \in {"COUNT", "SUM", "MIN", "MAX", "AVG"}

\* C25: translate_query returns a statement for every query whose aggregates
\* are supported, whatever its where predicates and order_by items are
C25_PanicsOnlyOnUnsupportedAggregate ==
    (phase \in {"translated", "aborted"} /\ AggregatesSupported(Get(query))) =>
        (phase = "translated" /\ sql.status = "ok")

\* the metric column the specification names for a stored aggregate
SpecifiedMetricColumn(agg) ==
    IF agg.op = "COUNT" /\ agg.column = None THEN "count_rows"
    ELSE ToLowercase(agg.op) \o "_" \o Get(agg.column)

\* the columns the emitter reads for the select object of a stored aggregate
EmitterReads(agg) ==
    SelectPartOverMv(AggItem(ToLowercase(agg.op),
                             IF agg.column = None THEN "*"
                             ELSE Get(agg.column))).expr.args

\* C26: for every aggregate of every MV of the list, base MV or sibling, the
\* MV's table has the metric column the emitter reads for that aggregate:
\* count_rows for COUNT(*), lowercase op, underscore, column for the others
C26_MetricNamesAgree ==
    \A i \in 1..Len(mvs) :
        \A agg \in mvs[i].aggs :
            /\ SpecifiedMetricColumn(agg) \in TableNamed(db, mvs[i].name).metrics
            /\ EmitterReads(agg) = <<SpecifiedMetricColumn(agg)>>

\* a sibling answers sum(total_price) from the column its table was given
C26_Witness ==
    /\ phase = "translated"
    /\ IsSome(picked)
    /\ IsTypePartitionedName(PickedMv.name)
    /\ \E k \in 1..Len(sql.select) :
           /\ sql.select[k].expr = Expr("SUM", <<"sum_total_price">>)
           /\ "sum_total_price" \in TableNamed(db, PickedMv.name).metrics

\* the steps of the preprocessing block and the step each may be followed by
PreprocessingSteps ==
    [start |-> {"created", "failed"},
     created |-> {"base_stats"},
     base_stats |-> {"partitioned", "failed"},
     partitioned |-> {"partitioned_stats"},
     partitioned_stats |-> {"preprocessed"}]

\* the table of a sibling and the position of its parent in the registry
IsSiblingOf(t, i) ==
    /\ IsTypePartitionedName(t.name)
    /\ t.name = CreateMvRegistry[i].name \o <<"type", t.name[Len(t.name)]>>

\* what the database and the list hold at each step of a build
PreprocessingInOrder ==
    ~useExisting =>
        /\ phase = "start" => db = {} /\ mvs = <<>>
        /\ phase = "created" =>
               /\ mvs = CreateMvRegistry
               /\ db = Range(BaseTables)
        /\ phase = "base_stats" =>
               /\ mvs = ComputeMvStats(events, db, CreateMvRegistry)
               /\ \A i \in 1..Len(mvs) : StatsCollected(mvs[i])
               /\ db = Range(BaseTables)
        /\ phase = "partitioned" =>
               \E base \in {SubSeq(mvs, 1, Len(CreateMvRegistry))} :
                   /\ base = ComputeMvStats(events, db, CreateMvRegistry)
                   /\ mvs = base \o CreateTypePartitionedMvs(base)
                   /\ \A i \in (Len(base) + 1)..Len(mvs) :
                          /\ mvs[i].num_rows = None
                          /\ \E t \in db : t.name = mvs[i].name
        /\ phase \in {"partitioned_stats", "preprocessed"} =>
               \A i \in 1..Len(mvs) : StatsCollected(mvs[i])
        /\ phase \in DOMAIN PreprocessingSteps \cup {"preprocessed", "failed"} =>
               \A t \in db :
                   IsTypePartitionedName(t.name) =>
                       \E i \in 1..Len(CreateMvRegistry) :
                           /\ IsSiblingOf(t, i)
                           /\ Len(mvs) >= i
                           /\ StatsCollected(mvs[i])
                           /\ SiblingsOf(mvs[i]) # <<>>

\* C27: a build creates every base MV, computes the base stats, creates the
\* siblings of the parents those stats choose, computes the siblings' stats
\* and creates the indexes, in this order; a sibling's table exists only once
\* its parent has its stats, and index creation always ends in "preprocessed"
C27_PreprocessingOrder ==
    /\ []PreprocessingInOrder
    /\ [][(phase \in DOMAIN PreprocessingSteps /\ ~useExisting)
           => (phase' \in PreprocessingSteps[phase])]_vars
    /\ [][(phase = "partitioned_stats") => (phase' = "preprocessed")]_vars

\* a build with siblings went through every step
C27_Witness ==
    /\ ~useExisting
    /\ phase = "preprocessed"
    /\ Len(mvs) > Len(CreateMvRegistry)
    /\ IndexStatements(mvs) # {}

\* the picked MV is one of create_mv_registry, not a sibling
PickedBaseMv ==
    /\ phase = "translated"
    /\ IsSome(picked)
    /\ \E i \in 1..Len(CreateMvRegistry) : PickedMv.name = CreateMvRegistry[i].name

\* C28: when a base MV is picked, every predicate of Q.where on `type` is in
\* the WHERE clause of the emitted statement
C28_BaseMvKeepsTypePredicates ==
    PickedBaseMv =>
        \A i \in 1..Len(Get(query).where) :
            Get(query).where[i].col = "type" =>
                \E k \in 1..Len(sql.where) :
                    /\ sql.where[k].col = "type"
                    /\ sql.where[k] = PredicateToSql(Get(query).where[i])

\* the columns a statement names in SELECT, WHERE, GROUP BY and ORDER BY
ReferencedColumns(stmt) ==
    UNION {Range(stmt.select[k].expr.args) : k \in 1..Len(stmt.select)}
    \cup {stmt.where[k].col : k \in {j \in 1..Len(stmt.where) : stmt.where[j] # NoCond}}
    \cup Range(stmt.group_by)
    \cup UNION {Range(stmt.order_by[k].expr.args) : k \in 1..Len(stmt.order_by)}

\* the columns of the table of an MV: its keys and its metric columns
ColumnsOfMv(mv) ==
    Range(mv.group_by)
    \cup {IF agg.column = None THEN "count_rows"
          ELSE MetricColName(agg.op, agg.column) : agg \in mv.aggs}

\* C29: every column the statement emitted against the picked MV names in
\* SELECT, WHERE, GROUP BY or ORDER BY is a key of the MV or the metric column
\* of one of its aggregates
C29_ReferencesOnlyMvColumns ==
    (phase = "translated" /\ IsSome(picked)) =>
        ReferencedColumns(sql) \subseteq ColumnsOfMv(PickedMv)

\* what the round trip compares: name, group_by in order, set of aggs
Descriptor(mv) == <<mv.name, mv.group_by, mv.aggs>>

\* the descriptors a build creates tables for: the registry and the siblings
\* of the parents the base stats choose
BuiltDescriptors ==
    {Descriptor(mv) :
        mv \in Range(CreateMvRegistry)
                \cup Range(PartitionedMvsFor(events, Range(BaseTables),
                                             CreateMvRegistry))}

\* C30: the descriptor load_all_mvs_from_db rebuilds from the columns of the
\* table an MV's create statement produced has the MV's name, its group_by in
\* the same order and its set of aggs: for every registry MV and each of its
\* four siblings, for every MV of the list while a build runs, and for the
\* list loaded after the build
C30_SchemaRoundTrip ==
    /\ \A i \in 1..Len(CreateMvRegistry) :
           /\ Descriptor(LoadMvFromTable(BaseTables[i]))
                  = Descriptor(CreateMvRegistry[i])
           /\ \A k \in 1..Len(PartitionTypes) :
                  \E sib \in {MaterializedViewNew(
                                  CreateMvRegistry[i].name \o <<"type", PartitionTypes[k]>>,
                                  Retain(CreateMvRegistry[i].group_by, "type"),
                                  CreateMvRegistry[i].aggs)} :
                      Descriptor(LoadMvFromTable(PartitionedTableOf(sib)))
                          = Descriptor(sib)
    /\ (~useExisting /\ phase \in {"created", "base_stats", "partitioned",
                                    "partitioned_stats", "preprocessed"}) =>
           \A i \in 1..Len(mvs) :
               Descriptor(LoadMvFromTable(TableNamed(db, mvs[i].name)))
                   = Descriptor(mvs[i])
    /\ (~useExisting /\ phase = "loaded") =>
           {Descriptor(mvs[j]) : j \in 1..Len(mvs)} = BuiltDescriptors

\* a build with siblings was loaded back: the sibling of the first registry
\* MV for purchase has the parent's keys without type
C30_Witness ==
    /\ ~useExisting
    /\ phase = "loaded"
    /\ Len(mvs) > Len(CreateMvRegistry)
    /\ \E j \in 1..Len(mvs) :
           /\ mvs[j].name = CreateMvRegistry[1].name \o <<"type", "purchase">>
           /\ mvs[j].group_by = <<"day", "country", "advertiser_id">>
           /\ mvs[j].aggs = CommonAggs

====
